---- MODULE Spec2Model ----
(***************************************************************************)
(* retry-axios: the response interceptor that retries failed requests.     *)
(* One logical request chain is modelled: the caller's request, the        *)
(* failures the transport hands to onError, the policy (raxConfig) carried *)
(* on the failed request's configuration, the backoff timer, the callbacks *)
(* onError / onRetryAttempt / shouldRetry, and the resubmission.           *)
(***************************************************************************)
EXTENDS Integers, Sequences, FiniteSets, TLC

VARIABLES
    cfg,                  \* the request configuration the caller passed to axios
    raxConfig,            \* error.config.raxConfig: the policy carried across attempts
    error,                \* the failure most recently handed to onError
    pc,                   \* position of the chain
    timer,                \* the setTimeout behind onBackoffPromise
    cancelled,            \* the caller has cancelled the operation
    outcome,              \* what the original caller has received
    requests,             \* calls of the transport (the original one included)
    onErrorCalls,         \* invocations of config.onError
    onRetryAttemptCalls,  \* invocations of config.onRetryAttempt
    shouldRetryCalls,     \* invocations of config.shouldRetry
    settled,              \* how the callback awaited last has settled
    handlers,             \* interceptors.response of each client: a slot per use()
    instance,             \* the client the request is issued on
    other                 \* a second chain of the client, while this one runs

vars == <<cfg, raxConfig, error, pc, timer, cancelled, outcome, requests,
          onErrorCalls, onRetryAttemptCalls, shouldRetryCalls, settled,
          handlers, instance, other>>

(***************************************************************************)
(* JavaScript values.  An optional value is <<>> (undefined) or <<v>>.     *)
(* An array is a length and the indices that hold a value (a sparse array  *)
(* has holes); a keyed object {0: a, 1: b} has the same shape, isArray     *)
(* FALSE.                                                                  *)
(***************************************************************************)
Undefined == <<>>
Some(v) == <<v>>
Val(o) == o[1]

JSArray(seq) ==
    [isArray |-> TRUE, length |-> Len(seq),
     items |-> [i \in 0..(Len(seq) - 1) |-> seq[i + 1]]]

\* Membership tested with indexOf(x) > 0: the first element is never found.
includes_IndexOfPositive(array, x) ==
    \E i \in DOMAIN array.items : i > 0 /\ array.items[i] = x

includes(array, x) == \E i \in DOMAIN array.items : array.items[i] = x

SetMax(S) == CHOOSE m \in S : \A k \in S : k <= m

toUpperCase(m) ==
    CASE m = "get" -> "GET"
      [] m = "post" -> "POST"
      [] m = "put" -> "PUT"
      [] OTHER -> m

(***************************************************************************)
(* Bounds of the model.                                                    *)
(***************************************************************************)
MaxRetry == 2

\* Calls of interceptors.response.use() on one client.
MaxHandlers == 2

(***************************************************************************)
(* Defaults of the policy.                                                 *)
(***************************************************************************)
DefaultRetry == 3
DefaultRetryDelay == 100
DefaultMaxRetryAfter == 300000
LinearStep == 1000
MsPerSecond == 1000
RandDen == 2

\* Time is counted in ticks of 1/TicksPerMs ms, so that the halves and the
\* random fractions of a delay are whole numbers of ticks.
TicksPerMs == 4 * RandDen

defaultMethods == JSArray(<<"GET", "HEAD", "PUT", "OPTIONS", "DELETE">>)

retryRanges == JSArray(<<<<100, 199>>, <<429, 429>>, <<500, 599>>>>)

(***************************************************************************)
(* Retry-After header values: what Number(header) and Date.parse(header)   *)
(* make of the text.  A date is given by its distance from now in ms.      *)
(* NoHeader is a response without the header or with an empty one: the     *)
(* engine reads the header only when its value is truthy.                  *)
(***************************************************************************)
NoHeader == [kind |-> "none", n |-> 0]
Seconds(n) == [kind |-> "seconds", n |-> n]
HttpDate(ms) == [kind |-> "date", n |-> ms]
Garbage == [kind |-> "garbage", n |-> 0]

RetryAfterHeaders == {Seconds(1), Seconds(0), HttpDate(6), HttpDate(-3), Garbage}

(***************************************************************************)
(* Failures the transport produces.  status 0: no response at all.         *)
(***************************************************************************)
Failure(id, status, header) ==
    [id |-> id, cancel |-> FALSE, status |-> status, retryAfter |-> header]

Cancellation(id) ==
    [id |-> id, cancel |-> TRUE, status |-> 0, retryAfter |-> NoHeader]

NoError == [id |-> 0, cancel |-> FALSE, status |-> 0, retryAfter |-> NoHeader]

FailureShapes ==
    {<<0, NoHeader>>, <<500, NoHeader>>, <<404, NoHeader>>, <<429, NoHeader>>}
        \cup {<<500, h>> : h \in RetryAfterHeaders}

(***************************************************************************)
(* The configurations a caller passes.                                     *)
(***************************************************************************)
TimingProfiles ==
    { [backoffType |-> "undefined", retryDelay |-> Undefined, jitter |-> "undefined",
       maxRetryDelay |-> Undefined, checkRetryAfter |-> Undefined,
       maxRetryAfter |-> Undefined],
      [backoffType |-> "static", retryDelay |-> Some(0), jitter |-> "full",
       maxRetryDelay |-> Undefined, checkRetryAfter |-> Some(FALSE),
       maxRetryAfter |-> Undefined],
      [backoffType |-> "linear", retryDelay |-> Some(8), jitter |-> "undefined",
       maxRetryDelay |-> Some(5), checkRetryAfter |-> Undefined,
       maxRetryAfter |-> Some(500)],
      [backoffType |-> "exponential", retryDelay |-> Some(8), jitter |-> "full",
       maxRetryDelay |-> Undefined, checkRetryAfter |-> Some(TRUE),
       maxRetryAfter |-> Undefined],
      [backoffType |-> "exponential", retryDelay |-> Some(8), jitter |-> "equal",
       maxRetryDelay |-> Some(5), checkRetryAfter |-> Undefined,
       maxRetryAfter |-> Undefined] }

RetryValues == {Undefined} \cup {Some(n) : n \in 0..MaxRetry}

RaxConfigs ==
    { [retry |-> r, currentRetryAttempt |-> Undefined,
       retryDelay |-> t.retryDelay, httpMethodsToRetry |-> Undefined,
       statusCodesToRetry |-> Undefined, onError |-> oe, onRetryAttempt |-> ora,
       shouldRetry |-> sr, backoffType |-> t.backoffType, jitter |-> t.jitter,
       checkRetryAfter |-> t.checkRetryAfter, maxRetryAfter |-> t.maxRetryAfter,
       maxRetryDelay |-> t.maxRetryDelay, errors |-> Undefined] :
      r \in RetryValues, oe \in BOOLEAN, ora \in BOOLEAN,
      sr \in {"undefined", "true", "false"}, t \in TimingProfiles }

Methods == {"get", "post"}

\* The clients: the default export of axios and one made with axios.create().
Clients == {"axios", "ax"}

\* Policies that differ in what the default eligibility reads: the ceiling,
\* the retryable methods and the retryable status ranges.
MethodLists ==
    {Undefined, Some(JSArray(<<"POST">>)), Some(JSArray(<<"post">>)),
     Some(JSArray(<<"GET", "HEAD", "PUT", "OPTIONS", "DELETE", "POST">>)),
     Some([isArray |-> FALSE, length |-> 0, items |-> (0 :> "POST" @@ 1 :> "GET")])}

StatusRangeLists ==
    {Undefined, Some(JSArray(<<<<404, 429>>>>)),
     Some([isArray |-> FALSE, length |-> 0, items |-> (0 :> <<500, 500>>)])}

EligibilityConfigs ==
    { [retry |-> r, currentRetryAttempt |-> Undefined,
       retryDelay |-> Undefined, httpMethodsToRetry |-> m,
       statusCodesToRetry |-> s, onError |-> cb, onRetryAttempt |-> cb,
       shouldRetry |-> "undefined", backoffType |-> "undefined",
       jitter |-> "undefined", checkRetryAfter |-> Undefined,
       maxRetryAfter |-> Undefined, maxRetryDelay |-> Undefined,
       errors |-> Undefined] :
      r \in RetryValues, m \in MethodLists, s \in StatusRangeLists,
      cb \in BOOLEAN }

\* Policies in which each field that has a default is set or left unset.
DefaultsConfigs ==
    { [retry |-> r, currentRetryAttempt |-> Undefined,
       retryDelay |-> rd, httpMethodsToRetry |-> m,
       statusCodesToRetry |-> s, onError |-> cb, onRetryAttempt |-> cb,
       shouldRetry |-> "undefined", backoffType |-> bt,
       jitter |-> "undefined", checkRetryAfter |-> cra,
       maxRetryAfter |-> mra, maxRetryDelay |-> Undefined,
       errors |-> Undefined] :
      r \in {Undefined, Some(0), Some(1)},
      rd \in {Undefined, Some(0)},
      bt \in {"undefined", "linear"},
      m \in {Undefined, Some(JSArray(<<"POST">>))},
      s \in {Undefined, Some(JSArray(<<<<404, 429>>>>))},
      cra \in {Undefined, Some(FALSE)},
      mra \in {Undefined, Some(500)},
      cb \in BOOLEAN }

\* Policies that differ in what the delay computation reads.
DelayConfigs ==
    { [retry |-> Some(MaxRetry), currentRetryAttempt |-> Undefined,
       retryDelay |-> rd, httpMethodsToRetry |-> Undefined,
       statusCodesToRetry |-> Undefined, onError |-> cb, onRetryAttempt |-> cb,
       shouldRetry |-> "undefined", backoffType |-> bt, jitter |-> j,
       checkRetryAfter |-> cra, maxRetryAfter |-> mra, maxRetryDelay |-> mrd,
       errors |-> Undefined] :
      rd \in {Undefined, Some(0), Some(3)},
      bt \in {"undefined", "exponential", "static", "linear"},
      j \in {"undefined", "none", "full", "equal"},
      cra \in {Undefined, Some(FALSE)},
      mra \in {Undefined, Some(500)},
      mrd \in {Undefined, Some(5)},
      cb \in BOOLEAN }

\* Lists a caller can get wrong: an empty keyed object, a sparse one (no
\* key 0), and arrays of status ranges with an entry that is not a pair.
NotAPair(n) == <<n>>

EmptyObject == [isArray |-> FALSE, length |-> 0, items |-> <<>>]

MalformedMethodLists ==
    {Undefined, Some(EmptyObject),
     Some([isArray |-> FALSE, length |-> 0, items |-> (1 :> "GET")])}

MalformedRangeLists ==
    {Undefined, Some(EmptyObject),
     Some([isArray |-> FALSE, length |-> 0, items |-> (1 :> <<500, 599>>)]),
     Some(JSArray(<<<<500, 599>>, NotAPair(404)>>)),
     Some(JSArray(<<NotAPair(404), <<500, 599>>>>))}

MalformedConfigs ==
    { [retry |-> r, currentRetryAttempt |-> Undefined,
       retryDelay |-> Undefined, httpMethodsToRetry |-> m,
       statusCodesToRetry |-> s, onError |-> cb, onRetryAttempt |-> cb,
       shouldRetry |-> "undefined", backoffType |-> "undefined",
       jitter |-> "undefined", checkRetryAfter |-> Undefined,
       maxRetryAfter |-> Undefined, maxRetryDelay |-> Undefined,
       errors |-> Undefined] :
      r \in {Some(1), Some(MaxRetry)}, m \in MalformedMethodLists,
      s \in MalformedRangeLists, cb \in BOOLEAN }

(***************************************************************************)
(* normalizeArray: a keyed object becomes the array of its numeric keys.   *)
(***************************************************************************)
\* The key tested with `if (number_)`: the entry under key 0 is dropped.
normalizeArray_DropsKeyZero(object) ==
    IF object = Undefined THEN Undefined
    ELSE IF Val(object).isArray THEN object
    ELSE Some([isArray |-> TRUE,
               length |-> IF DOMAIN Val(object).items = {} THEN 0
                          ELSE SetMax(DOMAIN Val(object).items) + 1,
               items |-> [k \in DOMAIN Val(object).items \ {0} |->
                             Val(object).items[k]]])

normalizeArray(object) ==
    IF object = Undefined THEN Undefined
    ELSE IF Val(object).isArray THEN object
    ELSE Some([isArray |-> TRUE,
               length |-> IF DOMAIN Val(object).items = {} THEN 0
                          ELSE SetMax(DOMAIN Val(object).items) + 1,
               items |-> Val(object).items])

(***************************************************************************)
(* parseRetryAfter: milliseconds, or undefined.                            *)
(***************************************************************************)
parseRetryAfter(header) ==
    IF header.kind = "seconds" THEN Some(header.n * MsPerSecond)
    ELSE IF header.kind = "date" THEN Some(header.n)
    ELSE Undefined

(***************************************************************************)
(* getConfig(error) || {} followed by the defaulting of onError.           *)
(***************************************************************************)
\* The defaults taken with `||`: a 0 the caller set is replaced as well.
resolveConfig_ZeroIsUnset(config) ==
    [config EXCEPT
        !.currentRetryAttempt = IF @ = Undefined \/ @ = Some(0) THEN Some(0) ELSE @,
        !.retry = IF @ # Undefined /\ @ # Some(0) THEN @ ELSE Some(DefaultRetry),
        !.retryDelay = IF @ # Undefined /\ @ # Some(0) THEN @
                       ELSE Some(DefaultRetryDelay),
        !.backoffType = IF @ = "undefined" THEN "exponential" ELSE @,
        !.httpMethodsToRetry =
            IF normalizeArray(@) # Undefined THEN normalizeArray(@)
            ELSE Some(defaultMethods),
        !.checkRetryAfter = IF @ # Undefined THEN @ ELSE Some(TRUE),
        !.maxRetryAfter = IF @ # Undefined THEN @ ELSE Some(DefaultMaxRetryAfter),
        !.statusCodesToRetry =
            IF normalizeArray(@) # Undefined THEN normalizeArray(@)
            ELSE Some(retryRanges)]

\* retry kept as a countdown: one less on every failure after a retry.
resolveConfig_Countdown(config) ==
    [config EXCEPT
        !.currentRetryAttempt = IF @ = Undefined \/ @ = Some(0) THEN Some(0) ELSE @,
        !.retry = IF @ = Undefined THEN Some(DefaultRetry)
                  ELSE IF config.currentRetryAttempt \in {Undefined, Some(0)} THEN @
                  ELSE Some(Val(@) - 1),
        !.retryDelay = IF @ # Undefined THEN @ ELSE Some(DefaultRetryDelay),
        !.backoffType = IF @ = "undefined" THEN "exponential" ELSE @,
        !.httpMethodsToRetry =
            IF normalizeArray(@) # Undefined THEN normalizeArray(@)
            ELSE Some(defaultMethods),
        !.checkRetryAfter = IF @ # Undefined THEN @ ELSE Some(TRUE),
        !.maxRetryAfter = IF @ # Undefined THEN @ ELSE Some(DefaultMaxRetryAfter),
        !.statusCodesToRetry =
            IF normalizeArray(@) # Undefined THEN normalizeArray(@)
            ELSE Some(retryRanges)]

resolveConfig(config) ==
    [config EXCEPT
        !.currentRetryAttempt = IF @ = Undefined \/ @ = Some(0) THEN Some(0) ELSE @,
        !.retry = IF @ # Undefined THEN @ ELSE Some(DefaultRetry),
        !.retryDelay = IF @ # Undefined THEN @ ELSE Some(DefaultRetryDelay),
        !.backoffType = IF @ = "undefined" THEN "exponential" ELSE @,
        !.httpMethodsToRetry =
            IF normalizeArray(@) # Undefined THEN normalizeArray(@)
            ELSE Some(defaultMethods),
        !.checkRetryAfter = IF @ # Undefined THEN @ ELSE Some(TRUE),
        !.maxRetryAfter = IF @ # Undefined THEN @ ELSE Some(DefaultMaxRetryAfter),
        !.statusCodesToRetry =
            IF normalizeArray(@) # Undefined THEN normalizeArray(@)
            ELSE Some(retryRanges)]

(***************************************************************************)
(* The errors array: created on the first failure, appended to afterwards. *)
(* Failures are held by identity (their id).                               *)
(***************************************************************************)
\* The array started afresh on every failure.
pushError_Overwrite(config, e) == [config EXCEPT !.errors = Some(<<e.id>>)]

\* The failure put in front of the array (unshift).
pushError_Prepend(config, e) ==
    [config EXCEPT
        !.errors = IF @ = Undefined THEN Some(<<e.id>>) ELSE Some(<<e.id>> \o Val(@))]

pushError(config, e) ==
    [config EXCEPT
        !.errors = IF @ = Undefined THEN Some(<<e.id>>) ELSE Some(Append(Val(@), e.id))]

(***************************************************************************)
(* shouldRetryRequest: the default eligibility policy.                     *)
(***************************************************************************)
\* The bounds of a range taken as exclusive.
statusInRange_Exclusive(config, status) ==
    \E i \in DOMAIN Val(config.statusCodesToRetry).items :
        LET range == Val(config.statusCodesToRetry).items[i]
        IN  Len(range) = 2 /\ status > range[1] /\ status < range[2]

statusInRange(config, status) ==
    \E i \in DOMAIN Val(config.statusCodesToRetry).items :
        LET range == Val(config.statusCodesToRetry).items[i]
        IN  Len(range) = 2 /\ status >= range[1] /\ status <= range[2]

\* for (const [min, max] of config.statusCodesToRetry): the entries are
\* visited in index order up to the first match, and destructuring throws a
\* TypeError on a hole of the array (undefined) and on an entry that is not
\* iterable.
isPair(array, i) == i \in DOMAIN array.items /\ Len(array.items[i]) = 2

statusRangesThrow(config, status) ==
    LET array == Val(config.statusCodesToRetry)
        matches(i) == /\ status >= array.items[i][1]
                      /\ status <= array.items[i][2]
    IN  \E i \in 0..(array.length - 1) :
            /\ ~isPair(array, i)
            /\ \A j \in 0..(i - 1) : isPair(array, j) /\ ~matches(j)

\* shouldRetryRequest reaches the loop over the ranges and throws there.
shouldRetryRequestThrows(config, method, e) ==
    /\ config.retry # Some(0)
    /\ Val(config.currentRetryAttempt) < Val(config.retry)
    /\ includes(Val(config.httpMethodsToRetry), toUpperCase(method))
    /\ e.status # 0
    /\ statusRangesThrow(config, e.status)

\* The ceiling compared with > instead of >=.
shouldRetryRequest_CeilingOffByOne(config, method, e) ==
    /\ config.retry # Some(0)
    /\ Val(config.currentRetryAttempt) <= Val(config.retry)
    /\ includes(Val(config.httpMethodsToRetry), toUpperCase(method))
    /\ (e.status # 0 => statusInRange(config, e.status))

shouldRetryRequest(config, method, e) ==
    /\ config.retry # Some(0)
    /\ Val(config.currentRetryAttempt) < Val(config.retry)
    /\ includes(Val(config.httpMethodsToRetry), toUpperCase(method))
    /\ (e.status # 0 => statusInRange(config, e.status))

(***************************************************************************)
(* The branch taken when a custom shouldRetry is configured: the ceiling   *)
(* first, then the callback, whose answer is `answer`.                     *)
(***************************************************************************)
\* The callback asked without the ceiling check (issue #117).
customShouldRetry_NoCeiling(config, answer) == answer

\* The ceiling compared with > instead of >=.
customShouldRetry_CeilingOffByOne(config, answer) ==
    /\ Val(config.currentRetryAttempt) <= Val(config.retry)
    /\ answer

customShouldRetry(config, answer) ==
    /\ Val(config.currentRetryAttempt) < Val(config.retry)
    /\ answer

shouldRetryAnswer(config) == config.shouldRetry = "true"

\* The callback asked on every failure, the exhausting one included.
shouldRetryInvoked_BeforeCeiling(config) == config.shouldRetry # "undefined"

shouldRetryInvoked(config) ==
    /\ config.shouldRetry # "undefined"
    /\ Val(config.currentRetryAttempt) < Val(config.retry)

\* The default policy applied on top of the callback's answer.
eligible_AlsoDefault(config, method, e) ==
    IF config.shouldRetry # "undefined"
    THEN /\ customShouldRetry(config, shouldRetryAnswer(config))
         /\ shouldRetryRequest(config, method, e)
    ELSE shouldRetryRequest(config, method, e)

eligible(config, method, e) ==
    IF config.shouldRetry # "undefined"
    THEN customShouldRetry(config, shouldRetryAnswer(config))
    ELSE shouldRetryRequest(config, method, e)

(***************************************************************************)
(* The executor of onBackoffPromise.                                       *)
(***************************************************************************)
\* The header honoured whatever checkRetryAfter says.
usesRetryAfter_IgnoresSwitch(config, e) == e.retryAfter # NoHeader

usesRetryAfter(config, e) ==
    Val(config.checkRetryAfter) /\ e.retryAfter # NoHeader

\* The parsed value not compared with maxRetryAfter.
retryAfterAccepted_NoCeiling(config, e) ==
    LET retryAfter == parseRetryAfter(e.retryAfter)
    IN  /\ retryAfter # Undefined
        /\ Val(retryAfter) # 0
        /\ Val(retryAfter) > 0

retryAfterAccepted(config, e) ==
    LET retryAfter == parseRetryAfter(e.retryAfter)
    IN  /\ retryAfter # Undefined
        /\ Val(retryAfter) # 0
        /\ Val(retryAfter) > 0
        /\ Val(retryAfter) <= Val(config.maxRetryAfter)

Pow2(n) == 2 ^ n

Min(a, b) == IF a < b THEN a ELSE b

\* maxRetryDelay not applied.
backoffDelay_NoClamp(config, retrycount, rnd) ==
    LET baseDelay == Val(config.retryDelay) * TicksPerMs
        exponential == ((Pow2(retrycount) - 1) * baseDelay) \div 2
        computed ==
            IF config.backoffType = "linear" THEN retrycount * LinearStep * TicksPerMs
            ELSE IF config.backoffType = "static" THEN baseDelay
            ELSE IF config.jitter = "full" THEN (rnd * exponential) \div RandDen
            ELSE IF config.jitter = "equal"
                 THEN exponential \div 2 + (rnd * (exponential \div 2)) \div RandDen
            ELSE exponential
    IN  computed

\* The exponent counted from 0 for the first retry.
backoffDelay_ExponentFromZero(config, retrycount, rnd) ==
    LET baseDelay == Val(config.retryDelay) * TicksPerMs
        exponential == ((Pow2(retrycount - 1) - 1) * baseDelay) \div 2
        computed ==
            IF config.backoffType = "linear" THEN retrycount * LinearStep * TicksPerMs
            ELSE IF config.backoffType = "static" THEN baseDelay
            ELSE IF config.jitter = "full" THEN (rnd * exponential) \div RandDen
            ELSE IF config.jitter = "equal"
                 THEN exponential \div 2 + (rnd * (exponential \div 2)) \div RandDen
            ELSE exponential
    IN  IF config.maxRetryDelay # Undefined
        THEN Min(computed, Val(config.maxRetryDelay) * TicksPerMs)
        ELSE computed

\* Jitter applied to the static delay as well.
backoffDelay_JitterOnStatic(config, retrycount, rnd) ==
    LET baseDelay == Val(config.retryDelay) * TicksPerMs
        exponential == ((Pow2(retrycount) - 1) * baseDelay) \div 2
        computed ==
            IF config.backoffType = "linear" THEN retrycount * LinearStep * TicksPerMs
            ELSE IF config.jitter = "full"
                 THEN (rnd * (IF config.backoffType = "static" THEN baseDelay
                              ELSE exponential)) \div RandDen
            ELSE IF config.backoffType = "static" THEN baseDelay
            ELSE IF config.jitter = "equal"
                 THEN exponential \div 2 + (rnd * (exponential \div 2)) \div RandDen
            ELSE exponential
    IN  IF config.maxRetryDelay # Undefined
        THEN Min(computed, Val(config.maxRetryDelay) * TicksPerMs)
        ELSE computed

\* The linear delay counted from 0 for the first retry (issue #122).
backoffDelay_LinearFromZero(config, retrycount, rnd) ==
    LET baseDelay == Val(config.retryDelay) * TicksPerMs
        exponential == ((Pow2(retrycount) - 1) * baseDelay) \div 2
        computed ==
            IF config.backoffType = "linear" THEN (retrycount - 1) * LinearStep * TicksPerMs
            ELSE IF config.backoffType = "static" THEN baseDelay
            ELSE IF config.jitter = "full" THEN (rnd * exponential) \div RandDen
            ELSE IF config.jitter = "equal"
                 THEN exponential \div 2 + (rnd * (exponential \div 2)) \div RandDen
            ELSE exponential
    IN  IF config.maxRetryDelay # Undefined
        THEN Min(computed, Val(config.maxRetryDelay) * TicksPerMs)
        ELSE computed

\* Equal jitter drawing its random half from the whole delay.
backoffDelay_EqualJitterWholeRange(config, retrycount, rnd) ==
    LET baseDelay == Val(config.retryDelay) * TicksPerMs
        exponential == ((Pow2(retrycount) - 1) * baseDelay) \div 2
        computed ==
            IF config.backoffType = "linear" THEN retrycount * LinearStep * TicksPerMs
            ELSE IF config.backoffType = "static" THEN baseDelay
            ELSE IF config.jitter = "full" THEN (rnd * exponential) \div RandDen
            ELSE IF config.jitter = "equal"
                 THEN exponential \div 2 + (rnd * exponential) \div RandDen
            ELSE exponential
    IN  IF config.maxRetryDelay # Undefined
        THEN Min(computed, Val(config.maxRetryDelay) * TicksPerMs)
        ELSE computed

\* Math.random() is rnd / RandDen, rnd in 0..RandDen-1.  The result is in
\* ticks; every division below is exact.
backoffDelay(config, retrycount, rnd) ==
    LET baseDelay == Val(config.retryDelay) * TicksPerMs
        exponential == ((Pow2(retrycount) - 1) * baseDelay) \div 2
        computed ==
            IF config.backoffType = "linear" THEN retrycount * LinearStep * TicksPerMs
            ELSE IF config.backoffType = "static" THEN baseDelay
            ELSE IF config.jitter = "full" THEN (rnd * exponential) \div RandDen
            ELSE IF config.jitter = "equal"
                 THEN exponential \div 2 + (rnd * (exponential \div 2)) \div RandDen
            ELSE exponential
    IN  IF config.maxRetryDelay # Undefined
        THEN Min(computed, Val(config.maxRetryDelay) * TicksPerMs)
        ELSE computed

usesRandom(config) ==
    /\ config.backoffType = "exponential"
    /\ config.jitter \in {"full", "equal"}

\* The Retry-After value parsed and checked, then not used as the delay.
retryDelayOf_IgnoresHeader(config, e, retrycount, rnd) ==
    backoffDelay(config, retrycount, rnd)

retryDelayOf(config, e, retrycount, rnd) ==
    LET fromHeader == IF usesRetryAfter(config, e)
                      THEN Val(parseRetryAfter(e.retryAfter)) ELSE 0
    IN  IF fromHeader = 0 THEN backoffDelay(config, retrycount, rnd)
        ELSE fromHeader * TicksPerMs

NoTimer == [state |-> "none", delay |-> 0, left |-> 0]

(***************************************************************************)
(* Init: rax.attach() has been called and the caller has issued the        *)
(* request on the default client.                                          *)
(***************************************************************************)
\* No second chain.
NoChain == [pc |-> "none"]

InitWith(requestConfigs) ==
    /\ other = NoChain
    /\ cfg \in requestConfigs
    /\ raxConfig = cfg.raxConfig
    /\ error = NoError
    /\ pc = "inflight"
    /\ timer = NoTimer
    /\ cancelled = FALSE
    /\ outcome = [kind |-> "pending", id |-> 0, by |-> "none"]
    /\ requests = 1
    /\ onErrorCalls = 0
    /\ onRetryAttemptCalls = 0
    /\ shouldRetryCalls = 0
    /\ settled = [callback |-> "none", result |-> "none"]
    /\ handlers = [c \in Clients |-> IF c = "axios" THEN <<TRUE>> ELSE <<>>]
    /\ instance = "axios"

Init == InitWith([method : Methods, raxConfig : RaxConfigs])

(***************************************************************************)
(* onFulfilled: a successful response goes to the caller as it is.         *)
(***************************************************************************)
\* A success counted as one more attempt of the chain.
onFulfilled_CountsAsAttempt ==
    /\ pc = "inflight"
    /\ ~cancelled
    /\ pc' = "done"
    /\ outcome' = [kind |-> "success", id |-> 0, by |-> "none"]
    /\ raxConfig' =
           IF raxConfig.currentRetryAttempt = Undefined THEN raxConfig
           ELSE [raxConfig EXCEPT
                    !.currentRetryAttempt = Some(Val(@) + 1)]
    /\ UNCHANGED <<cfg, other, handlers, instance, error, timer, cancelled, requests,
                   onErrorCalls, onRetryAttemptCalls, shouldRetryCalls, settled>>

onFulfilled ==
    /\ pc = "inflight"
    /\ ~cancelled
    /\ pc' = "done"
    /\ outcome' = [kind |-> "success", id |-> 0, by |-> "none"]
    /\ UNCHANGED <<cfg, other, handlers, instance, raxConfig, error, timer, cancelled, requests,
                   onErrorCalls, onRetryAttemptCalls, shouldRetryCalls, settled>>

(***************************************************************************)
(* onError on a cancellation: rethrown at once.                            *)
(***************************************************************************)
\* The policy resolved and attached before the cancellation check.
onErrorCancel_ResolvesFirst ==
    /\ pc = "inflight"
    /\ cancelled
    /\ error' = Cancellation(requests)
    /\ raxConfig' = pushError(resolveConfig(raxConfig), error')
    /\ pc' = "done"
    /\ outcome' = [kind |-> "cancel", id |-> requests, by |-> "none"]
    /\ UNCHANGED <<cfg, other, handlers, instance, timer, cancelled, requests,
                   onErrorCalls, onRetryAttemptCalls, shouldRetryCalls, settled>>

onErrorCancel ==
    /\ pc = "inflight"
    /\ cancelled
    /\ error' = Cancellation(requests)
    /\ pc' = "done"
    /\ outcome' = [kind |-> "cancel", id |-> requests, by |-> "none"]
    /\ UNCHANGED <<cfg, other, handlers, instance, raxConfig, timer, cancelled, requests,
                   onErrorCalls, onRetryAttemptCalls, shouldRetryCalls, settled>>

(***************************************************************************)
(* onError on any other failure, up to its first await.                    *)
(***************************************************************************)
\* config.onError called for the first failure of the chain only.
callsOnError_OnlyFirst(config, retry) ==
    config.onError /\ retry /\ config.currentRetryAttempt = Some(0)

\* config.onError called before the eligibility check.
callsOnError_EveryFailure(config, retry) == config.onError

callsOnError(config, retry) == retry /\ config.onError

\* The failure thrown back before the policy is put on its config.
onErrorStep_ThrowsUnattached(e, rnd) ==
    LET config == pushError(resolveConfig(raxConfig), e)
        throws == /\ config.shouldRetry = "undefined"
                  /\ shouldRetryRequestThrows(config, cfg.method, e)
        retry == ~throws /\ eligible(config, cfg.method, e)
        violation == usesRetryAfter(config, e) /\ ~retryAfterAccepted(config, e)
        retrycount == Val(config.currentRetryAttempt) + 1
        delay == retryDelayOf(config, e, retrycount, rnd)
    IN  /\ error' = e
        /\ shouldRetryCalls' =
               IF shouldRetryInvoked(config) THEN shouldRetryCalls + 1
               ELSE shouldRetryCalls
        /\ onErrorCalls' =
               IF callsOnError(config, retry) THEN onErrorCalls + 1 ELSE onErrorCalls
        /\ IF throws
           THEN /\ raxConfig' = config
                /\ pc' = "done"
                /\ outcome' = [kind |-> "TypeError", id |-> 0,
                               by |-> "shouldRetryRequest"]
                /\ UNCHANGED timer
           ELSE IF ~retry
           THEN /\ raxConfig' = raxConfig
                /\ pc' = "done"
                /\ outcome' = [kind |-> "failure", id |-> e.id, by |-> "none"]
                /\ UNCHANGED timer
           ELSE /\ IF violation
                   THEN /\ raxConfig' = config
                        /\ timer' = [state |-> "rejected", delay |-> 0, left |-> 0]
                   ELSE /\ raxConfig' =
                               [config EXCEPT !.currentRetryAttempt = Some(retrycount)]
                        /\ timer' = [state |-> "pending", delay |-> delay,
                                     left |-> delay]
                /\ pc' = IF config.onError THEN "onError" ELSE "backoff"
                /\ UNCHANGED outcome
        /\ UNCHANGED <<cfg, other, handlers, instance, cancelled, requests, onRetryAttemptCalls, settled>>

\* The counter incremented before the Retry-After header is checked.
onErrorStep_IncrementsFirst(e, rnd) ==
    LET config == pushError(resolveConfig(raxConfig), e)
        throws == /\ config.shouldRetry = "undefined"
                  /\ shouldRetryRequestThrows(config, cfg.method, e)
        retry == ~throws /\ eligible(config, cfg.method, e)
        violation == usesRetryAfter(config, e) /\ ~retryAfterAccepted(config, e)
        retrycount == Val(config.currentRetryAttempt) + 1
        delay == retryDelayOf(config, e, retrycount, rnd)
    IN  /\ error' = e
        /\ shouldRetryCalls' =
               IF shouldRetryInvoked(config) THEN shouldRetryCalls + 1
               ELSE shouldRetryCalls
        /\ onErrorCalls' =
               IF callsOnError(config, retry) THEN onErrorCalls + 1 ELSE onErrorCalls
        /\ IF throws
           THEN /\ raxConfig' = config
                /\ pc' = "done"
                /\ outcome' = [kind |-> "TypeError", id |-> 0,
                               by |-> "shouldRetryRequest"]
                /\ UNCHANGED timer
           ELSE IF ~retry
           THEN /\ raxConfig' = config
                /\ pc' = "done"
                /\ outcome' = [kind |-> "failure", id |-> e.id, by |-> "none"]
                /\ UNCHANGED timer
           ELSE /\ IF violation
                   THEN /\ raxConfig' =
                               [config EXCEPT !.currentRetryAttempt = Some(retrycount)]
                        /\ timer' = [state |-> "rejected", delay |-> 0, left |-> 0]
                   ELSE /\ raxConfig' =
                               [config EXCEPT !.currentRetryAttempt = Some(retrycount)]
                        /\ timer' = [state |-> "pending", delay |-> delay,
                                     left |-> delay]
                /\ pc' = IF config.onError THEN "onError" ELSE "backoff"
                /\ UNCHANGED outcome
        /\ UNCHANGED <<cfg, other, handlers, instance, cancelled, requests, onRetryAttemptCalls, settled>>

onErrorStep(e, rnd) ==
    LET config == pushError(resolveConfig(raxConfig), e)
        throws == /\ config.shouldRetry = "undefined"
                  /\ shouldRetryRequestThrows(config, cfg.method, e)
        retry == ~throws /\ eligible(config, cfg.method, e)
        violation == usesRetryAfter(config, e) /\ ~retryAfterAccepted(config, e)
        retrycount == Val(config.currentRetryAttempt) + 1
        delay == retryDelayOf(config, e, retrycount, rnd)
    IN  /\ error' = e
        /\ shouldRetryCalls' =
               IF shouldRetryInvoked(config) THEN shouldRetryCalls + 1
               ELSE shouldRetryCalls
        /\ onErrorCalls' =
               IF callsOnError(config, retry) THEN onErrorCalls + 1 ELSE onErrorCalls
        /\ IF throws
           THEN /\ raxConfig' = config
                /\ pc' = "done"
                /\ outcome' = [kind |-> "TypeError", id |-> 0,
                               by |-> "shouldRetryRequest"]
                /\ UNCHANGED timer
           ELSE IF ~retry
           THEN /\ raxConfig' = config
                /\ pc' = "done"
                /\ outcome' = [kind |-> "failure", id |-> e.id, by |-> "none"]
                /\ UNCHANGED timer
           ELSE /\ IF violation
                   THEN /\ raxConfig' = config
                        /\ timer' = [state |-> "rejected", delay |-> 0, left |-> 0]
                   ELSE /\ raxConfig' =
                               [config EXCEPT !.currentRetryAttempt = Some(retrycount)]
                        /\ timer' = [state |-> "pending", delay |-> delay,
                                     left |-> delay]
                /\ pc' = IF config.onError THEN "onError" ELSE "backoff"
                /\ UNCHANGED outcome
        /\ UNCHANGED <<cfg, other, handlers, instance, cancelled, requests, onRetryAttemptCalls, settled>>

\* The handler of any client taken for the handler of this one.
attached_AnyClient ==
    \E c \in DOMAIN handlers : \E i \in DOMAIN handlers[c] : handlers[c][i]

\* The engine's handler is in a slot of the client's response interceptors.
attached == \E i \in DOMAIN handlers[instance] : handlers[instance][i]

onError ==
    /\ pc = "inflight"
    /\ ~cancelled
    /\ attached
    /\ \E shape \in FailureShapes :
       \E rnd \in 0..(RandDen - 1) :
          /\ (rnd # 0 => usesRandom(resolveConfig(raxConfig)))
          /\ onErrorStep(Failure(requests, shape[1], shape[2]), rnd)

(***************************************************************************)
(* await config.onError(axiosError): the callback settles, resolved or     *)
(* rejected, and the handler goes on or rejects with that rejection.       *)
(***************************************************************************)
Results == {"resolved", "rejected"}

\* A rejection of the callback swallowed.
afterCallback_Swallow(callback, result, next) ==
    /\ settled' = [callback |-> callback, result |-> result]
    /\ pc' = next
    /\ UNCHANGED outcome

afterCallback(callback, result, next) ==
    /\ settled' = [callback |-> callback, result |-> result]
    /\ IF result = "rejected"
       THEN /\ pc' = "done"
            /\ outcome' = [kind |-> "rejection", id |-> 0, by |-> callback]
       ELSE /\ pc' = next
            /\ UNCHANGED outcome

awaitOnError ==
    /\ pc = "onError"
    /\ \E result \in Results : afterCallback("onError", result, "backoff")
    /\ UNCHANGED <<cfg, other, handlers, instance, raxConfig, error, timer, cancelled, requests,
                   onErrorCalls, onRetryAttemptCalls, shouldRetryCalls>>

(***************************************************************************)
(* Time passes while a timer is pending; at its deadline setTimeout calls  *)
(* resolve.                                                                *)
(***************************************************************************)
Tick ==
    /\ timer.state = "pending"
    /\ timer.left > 0
    /\ \E d \in {timer.left, (timer.left + 1) \div 2} :
          timer' = [timer EXCEPT !.left = @ - d]
    /\ UNCHANGED <<cfg, other, handlers, instance, raxConfig, error, pc, cancelled, outcome, requests,
                   onErrorCalls, onRetryAttemptCalls, shouldRetryCalls, settled>>

TimerFire ==
    /\ timer.state = "pending"
    /\ timer.left = 0
    /\ timer' = [timer EXCEPT !.state = "fired"]
    /\ UNCHANGED <<cfg, other, handlers, instance, raxConfig, error, pc, cancelled, outcome, requests,
                   onErrorCalls, onRetryAttemptCalls, shouldRetryCalls, settled>>

(***************************************************************************)
(* The chain after onBackoffPromise settles: rejected on a Retry-After     *)
(* violation, else config.onRetryAttempt?.(axiosError) once the timer has  *)
(* fired.                                                                  *)
(***************************************************************************)
\* The chain ended without anything delivered to the caller.
backoffRejected_Silent ==
    /\ pc = "backoff"
    /\ timer.state = "rejected"
    /\ pc' = "done"
    /\ outcome' = outcome
    /\ UNCHANGED <<cfg, other, handlers, instance, raxConfig, error, timer, cancelled, requests,
                   onErrorCalls, onRetryAttemptCalls, shouldRetryCalls, settled>>

\* The chain rejected with its original failure instead of the current one.
backoffRejected_OriginalFailure ==
    /\ pc = "backoff"
    /\ timer.state = "rejected"
    /\ pc' = "done"
    /\ outcome' = [kind |-> "failure", id |-> 1, by |-> "none"]
    /\ UNCHANGED <<cfg, other, handlers, instance, raxConfig, error, timer, cancelled, requests,
                   onErrorCalls, onRetryAttemptCalls, shouldRetryCalls, settled>>

backoffRejected ==
    /\ pc = "backoff"
    /\ timer.state = "rejected"
    /\ pc' = "done"
    /\ outcome' = [kind |-> "failure", id |-> error.id, by |-> "none"]
    /\ UNCHANGED <<cfg, other, handlers, instance, raxConfig, error, timer, cancelled, requests,
                   onErrorCalls, onRetryAttemptCalls, shouldRetryCalls, settled>>

\* The firing timer going on with the retry whatever became of the chain.
backoffElapsed_IgnoresAbort == timer.state = "fired"

\* The chain not waiting for onBackoffPromise.
backoffElapsed_NoWait == pc = "backoff" /\ timer.state # "rejected"

backoffElapsed == pc = "backoff" /\ timer.state = "fired"

callOnRetryAttempt ==
    /\ backoffElapsed
    /\ raxConfig.onRetryAttempt
    /\ pc' = "onRetryAttempt"
    /\ onRetryAttemptCalls' = onRetryAttemptCalls + 1
    /\ UNCHANGED <<cfg, other, handlers, instance, raxConfig, error, timer, cancelled, outcome, requests,
                   onErrorCalls, shouldRetryCalls, settled>>

(***************************************************************************)
(* instance.request(axiosError.config): the resubmission, directly when no *)
(* onRetryAttempt is configured, else once the callback has settled.       *)
(***************************************************************************)
\* The request resubmitted without awaiting onError.
retryWithoutCallback_NoAwait ==
    /\ \/ backoffElapsed
       \/ pc = "onError" /\ timer.state = "fired"
    /\ ~raxConfig.onRetryAttempt
    /\ pc' = "inflight"
    /\ requests' = requests + 1
    /\ UNCHANGED <<cfg, other, handlers, instance, raxConfig, error, timer, cancelled, outcome,
                   onErrorCalls, onRetryAttemptCalls, shouldRetryCalls, settled>>

retryWithoutCallback ==
    /\ backoffElapsed
    /\ ~raxConfig.onRetryAttempt
    /\ pc' = "inflight"
    /\ requests' = requests + 1
    /\ UNCHANGED <<cfg, other, handlers, instance, raxConfig, error, timer, cancelled, outcome,
                   onErrorCalls, onRetryAttemptCalls, shouldRetryCalls, settled>>

awaitOnRetryAttempt ==
    /\ pc = "onRetryAttempt"
    /\ \E result \in Results : afterCallback("onRetryAttempt", result, "inflight")
    /\ requests' = IF pc' = "inflight" THEN requests + 1 ELSE requests
    /\ UNCHANGED <<cfg, other, handlers, instance, raxConfig, error, timer, cancelled,
                   onErrorCalls, onRetryAttemptCalls, shouldRetryCalls>>

(***************************************************************************)
(* The caller cancels the operation (cancel token or abort signal).        *)
(***************************************************************************)
Cancel ==
    /\ pc # "done"
    /\ ~cancelled
    /\ cancelled' = TRUE
    /\ UNCHANGED <<cfg, other, handlers, instance, raxConfig, error, pc, timer, outcome, requests,
                   onErrorCalls, onRetryAttemptCalls, shouldRetryCalls, settled>>

Next ==
    \/ onFulfilled
    \/ onErrorCancel
    \/ onError
    \/ awaitOnError
    \/ Tick
    \/ TimerFire
    \/ backoffRejected
    \/ callOnRetryAttempt
    \/ retryWithoutCallback
    \/ awaitOnRetryAttempt
    \/ Cancel

Spec == Init /\ [][Next]_vars

(***************************************************************************)
(* The chain under an environment in which every transport call, every     *)
(* callback and every timer settles, and the continuations of settled      *)
(* promises are run.  Nothing obliges the caller to cancel.                *)
(***************************************************************************)
transportSettles == onFulfilled \/ onErrorCancel \/ onError

callbackSettles == awaitOnError \/ awaitOnRetryAttempt

timerSettles == Tick \/ TimerFire

chainContinues == backoffRejected \/ callOnRetryAttempt \/ retryWithoutCallback

Fairness ==
    /\ WF_vars(transportSettles)
    /\ WF_vars(callbackSettles)
    /\ WF_vars(timerSettles)
    /\ WF_vars(chainContinues)

SpecLive == Init /\ [][Next]_vars /\ Fairness

(***************************************************************************)
(* Two requests issued on the client one after the other, both in flight.  *)
(* Each failure carries its own config, and onError reads and writes the   *)
(* policy on the config of the failure it is given; the steps of the two   *)
(* chains interleave as the event loop takes them.  The variables hold the *)
(* chain whose step is taken, `other` the chain that waits.                *)
(***************************************************************************)
chain ==
    [cfg |-> cfg, raxConfig |-> raxConfig, error |-> error, pc |-> pc,
     timer |-> timer, cancelled |-> cancelled, outcome |-> outcome,
     requests |-> requests, onErrorCalls |-> onErrorCalls,
     onRetryAttemptCalls |-> onRetryAttemptCalls,
     shouldRetryCalls |-> shouldRetryCalls, settled |-> settled]

\* The policy kept in one place for the client instead of on each failure's
\* config: the chain that takes over finds the policy the other one left.
switch_SharedPolicy ==
    /\ other # NoChain
    /\ other' = chain
    /\ cfg' = other.cfg
    /\ raxConfig' = raxConfig
    /\ error' = other.error
    /\ pc' = other.pc
    /\ timer' = other.timer
    /\ cancelled' = other.cancelled
    /\ outcome' = other.outcome
    /\ requests' = other.requests
    /\ onErrorCalls' = other.onErrorCalls
    /\ onRetryAttemptCalls' = other.onRetryAttemptCalls
    /\ shouldRetryCalls' = other.shouldRetryCalls
    /\ settled' = other.settled
    /\ UNCHANGED <<handlers, instance>>

switch ==
    /\ other # NoChain
    /\ other' = chain
    /\ cfg' = other.cfg
    /\ raxConfig' = other.raxConfig
    /\ error' = other.error
    /\ pc' = other.pc
    /\ timer' = other.timer
    /\ cancelled' = other.cancelled
    /\ outcome' = other.outcome
    /\ requests' = other.requests
    /\ onErrorCalls' = other.onErrorCalls
    /\ onRetryAttemptCalls' = other.onRetryAttemptCalls
    /\ shouldRetryCalls' = other.shouldRetryCalls
    /\ settled' = other.settled
    /\ UNCHANGED <<handlers, instance>>

ConcurrentConfigs ==
    { c \in RaxConfigs :
        /\ c.retry = Some(1)
        /\ c.onError = c.onRetryAttempt
        /\ \/ c.shouldRetry = "undefined" /\ c.onError
           \/ c.shouldRetry = "true" /\ ~c.onError
        /\ c.backoffType = "linear" }

InitConcurrent ==
    /\ cfg \in [method : {"get"}, raxConfig : ConcurrentConfigs]
    /\ raxConfig = cfg.raxConfig
    /\ error = NoError
    /\ pc = "inflight"
    /\ timer = NoTimer
    /\ cancelled = FALSE
    /\ outcome = [kind |-> "pending", id |-> 0, by |-> "none"]
    /\ requests = 1
    /\ onErrorCalls = 0
    /\ onRetryAttemptCalls = 0
    /\ shouldRetryCalls = 0
    /\ settled = [callback |-> "none", result |-> "none"]
    /\ handlers = [c \in Clients |-> IF c = "axios" THEN <<TRUE>> ELSE <<>>]
    /\ instance = "axios"
    /\ \E c \in [method : {"get"}, raxConfig : ConcurrentConfigs] :
          other = [chain EXCEPT !.cfg = c, !.raxConfig = c.raxConfig]

NextConcurrent == Next \/ switch

SpecConcurrent == InitConcurrent /\ [][NextConcurrent]_vars

InitMalformed == InitWith([method : Methods, raxConfig : MalformedConfigs])

SpecMalformed == InitMalformed /\ [][Next]_vars

InitEligibility == InitWith([method : Methods, raxConfig : EligibilityConfigs])

SpecEligibility == InitEligibility /\ [][Next]_vars

(***************************************************************************)
(* axios(cfg) once more, with the configuration object of a request that   *)
(* has finished: the transport builds the request's config from the        *)
(* caller's object, which no step of the engine writes.  outcome keeps     *)
(* what the caller received last until the new chain ends.                 *)
(***************************************************************************)
\* The policy of the finished chain found again by the new request.
request_KeepsPolicy ==
    /\ pc = "done"
    /\ pc' = "inflight"
    /\ error' = NoError
    /\ timer' = NoTimer
    /\ cancelled' = FALSE
    /\ requests' = 1
    /\ onErrorCalls' = 0
    /\ onRetryAttemptCalls' = 0
    /\ shouldRetryCalls' = 0
    /\ settled' = [callback |-> "none", result |-> "none"]
    /\ UNCHANGED <<cfg, other, handlers, instance, raxConfig, outcome>>

requestOn(inst) ==
    /\ pc = "done"
    /\ raxConfig' = cfg.raxConfig
    /\ pc' = "inflight"
    /\ error' = NoError
    /\ timer' = NoTimer
    /\ cancelled' = FALSE
    /\ requests' = 1
    /\ onErrorCalls' = 0
    /\ onRetryAttemptCalls' = 0
    /\ shouldRetryCalls' = 0
    /\ settled' = [callback |-> "none", result |-> "none"]
    /\ instance' = inst
    /\ UNCHANGED <<cfg, other, handlers, outcome>>

request == requestOn(instance)

ReuseConfigs ==
    { c \in RaxConfigs :
        /\ c.onError = c.onRetryAttempt
        /\ c.shouldRetry \in {"undefined", "true"}
        /\ c.backoffType = "undefined" }

NextReuse == Next \/ request

InitReuse == InitWith([method : Methods, raxConfig : ReuseConfigs])

SpecReuse == InitReuse /\ [][NextReuse]_vars

(***************************************************************************)
(* attach and detach: the engine's handler is put into a new slot of the   *)
(* client's response interceptors, whose index is the interceptor id, and  *)
(* eject empties the slot with that index if there is one.  Handlers are   *)
(* attached and detached between logical requests, and a client holds the  *)
(* handler at most once.                                                   *)
(***************************************************************************)
use(slots) == Append(slots, TRUE)

\* eject emptying every slot of the client.
eject_Clears(slots, interceptorId) == [i \in DOMAIN slots |-> FALSE]

eject(slots, interceptorId) ==
    IF interceptorId + 1 \in DOMAIN slots
    THEN [slots EXCEPT ![interceptorId + 1] = FALSE]
    ELSE slots

attach(inst) ==
    /\ pc = "done"
    /\ Len(handlers[inst]) < MaxHandlers
    /\ \A i \in DOMAIN handlers[inst] : ~handlers[inst][i]
    /\ handlers' = [handlers EXCEPT ![inst] = use(@)]
    /\ UNCHANGED <<cfg, other, raxConfig, error, pc, timer, cancelled, outcome, requests,
                   onErrorCalls, onRetryAttemptCalls, shouldRetryCalls, settled,
                   instance>>

detach(interceptorId, inst) ==
    /\ pc = "done"
    /\ handlers' = [handlers EXCEPT ![inst] = eject(@, interceptorId)]
    /\ UNCHANGED <<cfg, other, raxConfig, error, pc, timer, cancelled, outcome, requests,
                   onErrorCalls, onRetryAttemptCalls, shouldRetryCalls, settled,
                   instance>>

(***************************************************************************)
(* A failure on a client without the handler: the transport rejects the    *)
(* caller's promise with it.                                               *)
(***************************************************************************)
unhandledRejection ==
    /\ pc = "inflight"
    /\ ~cancelled
    /\ ~attached
    /\ \E shape \in FailureShapes :
          error' = Failure(requests, shape[1], shape[2])
    /\ pc' = "done"
    /\ outcome' = [kind |-> "failure", id |-> requests, by |-> "none"]
    /\ UNCHANGED <<cfg, other, handlers, instance, raxConfig, timer, cancelled, requests,
                   onErrorCalls, onRetryAttemptCalls, shouldRetryCalls, settled>>

\* A request without raxConfig (to the engine the same as an empty one) and
\* requests that carry one.
NoPolicy ==
    [retry |-> Undefined, currentRetryAttempt |-> Undefined,
     retryDelay |-> Undefined, httpMethodsToRetry |-> Undefined,
     statusCodesToRetry |-> Undefined, onError |-> FALSE,
     onRetryAttempt |-> FALSE, shouldRetry |-> "undefined",
     backoffType |-> "undefined", jitter |-> "undefined",
     checkRetryAfter |-> Undefined, maxRetryAfter |-> Undefined,
     maxRetryDelay |-> Undefined, errors |-> Undefined]

AttachConfigs ==
    {NoPolicy}
        \cup { [NoPolicy EXCEPT !.retry = Some(1), !.onError = cb,
                                !.onRetryAttempt = cb] : cb \in BOOLEAN }

NextAttach ==
    \/ Next
    \/ \E inst \in Clients : requestOn(inst)
    \/ \E inst \in Clients : attach(inst)
    \/ \E inst \in Clients, interceptorId \in 0..(MaxHandlers - 1) :
          detach(interceptorId, inst)
    \/ unhandledRejection

InitAttach == InitWith([method : {"get"}, raxConfig : AttachConfigs])

SpecAttach == InitAttach /\ [][NextAttach]_vars

InitDefaults == InitWith([method : Methods, raxConfig : DefaultsConfigs])

SpecDefaults == InitDefaults /\ [][Next]_vars

InitDelay == InitWith([method : {"get"}, raxConfig : DelayConfigs])

SpecDelay == InitDelay /\ [][Next]_vars


(***************************************************************************)
(* Properties.                                                             *)
(***************************************************************************)
resolved == raxConfig.currentRetryAttempt # Undefined
currentRetryAttempt == Val(raxConfig.currentRetryAttempt)
maxRetries == Val(resolveConfig(cfg.raxConfig).retry)
errorsLength == IF raxConfig.errors = Undefined THEN 0 ELSE Len(Val(raxConfig.errors))
retries == requests - 1
done == pc = "done"

\* A failure the default policy retries: no response, or a status of the default ranges.
retryableFailure(e) ==
    /\ ~e.cancel
    /\ e.status = 0 \/ statusInRange(resolveConfig(cfg.raxConfig), e.status)

\* C1: with maxRetries = N, the default policy, a retryable method and a
\* transport that only produces retryable failures without Retry-After, the
\* chain ends rejected with the last failure after exactly N+1 requests and
\* with currentAttempt = N.
C1_ExactlyNPlusOneRequests ==
    ( /\ done
      /\ outcome.kind = "failure"
      /\ cfg.raxConfig.shouldRetry = "undefined"
      /\ toUpperCase(cfg.method) = "GET"
      /\ retryableFailure(error)
      /\ error.retryAfter = NoHeader )
    => /\ requests = maxRetries + 1
       /\ currentRetryAttempt = maxRetries
       /\ outcome.id = requests

C1_Witness ==
    /\ done
    /\ outcome.kind = "failure"
    /\ cfg.raxConfig.shouldRetry = "undefined"
    /\ cfg.raxConfig.retry = Some(MaxRetry)
    /\ toUpperCase(cfg.method) = "GET"
    /\ retryableFailure(error)
    /\ error.retryAfter = NoHeader
    /\ requests = MaxRetry + 1
    /\ ~cancelled

\* C2: with a shouldRetry that always returns true, the number of requests
\* resubmitted never exceeds maxRetries.
C2_ShouldRetryCapped ==
    cfg.raxConfig.shouldRetry = "true" => retries <= maxRetries

C2_Witness ==
    /\ cfg.raxConfig.shouldRetry = "true"
    /\ cfg.raxConfig.retry = Some(MaxRetry)
    /\ retries = MaxRetry
    /\ done
    /\ outcome.kind = "failure"
    /\ shouldRetryCalls = MaxRetry

\* C3 (as stated): at every final rejection, however caused, errors.length
\* equals currentAttempt + 1.
C3_Original ==
    (done /\ outcome.kind \in {"failure", "rejection"})
        => errorsLength = currentRetryAttempt + 1

\* C3 (amended): when the chain is rejected with the transport failure itself
\* (ineligible, exhausted, Retry-After violation), or by a callback before the
\* retry was committed, errors.length = currentAttempt + 1; when onError or
\* onRetryAttempt rejects after the retry was committed, the counter has been
\* incremented already and errors.length = currentAttempt.
retryCommitted == timer.state # "rejected"

C3_HistoryLength ==
    /\ (done /\ outcome.kind = "failure") => errorsLength = currentRetryAttempt + 1
    /\ (done /\ outcome.kind = "rejection") =>
           errorsLength = IF retryCommitted THEN currentRetryAttempt
                          ELSE currentRetryAttempt + 1

C3_Witness ==
    /\ done
    /\ outcome.kind = "rejection"
    /\ outcome.by = "onRetryAttempt"
    /\ errorsLength = 2
    /\ currentRetryAttempt = 2

\* C4: once the policy is resolved, 0 <= currentAttempt <= maxRetries, with
\* the default policy and with a custom shouldRetry.
C4_AttemptWithinCeiling ==
    resolved => (0 <= currentRetryAttempt /\ currentRetryAttempt <= maxRetries)

C4_Witness ==
    /\ done
    /\ outcome.kind = "failure"
    /\ cfg.raxConfig.shouldRetry = "true"
    /\ maxRetries = MaxRetry
    /\ currentRetryAttempt = maxRetries
    /\ retries = maxRetries

\* C5: a cancellation handed to the engine is rethrown at once: the policy
\* is left as it was (nothing resolved, attached or appended), no callback is
\* invoked, no timer is started and no request is made.
cancellationArrives == error'.cancel /\ error' # error

C5_CancellationRethrown ==
    [][cancellationArrives =>
          /\ raxConfig' = raxConfig
          /\ timer' = timer
          /\ requests' = requests
          /\ onErrorCalls' = onErrorCalls
          /\ onRetryAttemptCalls' = onRetryAttemptCalls
          /\ shouldRetryCalls' = shouldRetryCalls
          /\ pc' = "done"
          /\ outcome' = [kind |-> "cancel", id |-> error'.id, by |-> "none"]]_vars

C5_Witness ==
    /\ done
    /\ outcome.kind = "cancel"
    /\ error.cancel
    /\ ~resolved
    /\ requests = 1

\* C6 (as stated): once the caller has cancelled while a retry waits out its
\* backoff, the pending retry never fires: onRetryAttempt is not invoked and
\* the transport is not called again for the chain.
C6_CancelStopsPendingRetry ==
    [][(cancelled /\ pc = "backoff" /\ retryCommitted /\ timer.delay > 0) =>
          /\ onRetryAttemptCalls' = onRetryAttemptCalls
          /\ requests' = requests]_vars

\* C7 (as stated): the steps of a committed retry run one after another:
\* the wait for the backoff delay begins only when onError has settled and
\* lasts the full computed delay, onRetryAttempt is called only when the wait
\* is over, and the request is resubmitted only when onRetryAttempt has
\* settled.
onErrorSettles == pc = "onError" /\ pc' = "backoff"

C7_StepsStrictlySequential ==
    [][ /\ (onErrorSettles /\ retryCommitted) =>
              (timer.state = "pending" /\ timer.left = timer.delay)
        /\ (onRetryAttemptCalls' # onRetryAttemptCalls) =>
              (pc = "backoff" /\ timer.state = "fired")
        /\ (requests' # requests) =>
              (IF cfg.raxConfig.onRetryAttempt THEN pc = "onRetryAttempt"
               ELSE pc = "backoff" /\ timer.state = "fired") ]_vars

\* C8 (as stated): a chain in which the engine sees k non-cancellation
\* failures has invoked onError exactly k times.
C8_Original ==
    (done /\ cfg.raxConfig.onError) => onErrorCalls = errorsLength

\* C8 (amended): onError, when configured, is invoked exactly once for each
\* failure that passes the eligibility check, before any of the delay for that
\* failure has elapsed, and not at all for a failure rejected as ineligible
\* (so not for the failure that exhausts the retries).
failureArrives == error'.id # error.id /\ ~error'.cancel
passesEligibility == failureArrives /\ pc' # "done"

C8_OnErrorOncePerEligibleFailure ==
    [][ /\ (passesEligibility /\ cfg.raxConfig.onError) =>
              /\ onErrorCalls' = onErrorCalls + 1
              /\ pc' = "onError"
              /\ timer'.left = timer'.delay
        /\ ~(passesEligibility /\ cfg.raxConfig.onError) =>
              onErrorCalls' = onErrorCalls ]_vars

C8_Witness ==
    /\ done
    /\ cfg.raxConfig.onError
    /\ outcome.kind = "failure"
    /\ errorsLength = 3
    /\ onErrorCalls = 2

\* C9: onRetryAttempt, when configured, is invoked exactly once per retry,
\* when the backoff timer has fired and before the resubmission, and the k-th
\* invocation reads currentRetryAttempt = k.
C9_OnRetryAttemptOncePerRetry ==
    [][ /\ (onRetryAttemptCalls' # onRetryAttemptCalls) =>
              /\ onRetryAttemptCalls' = onRetryAttemptCalls + 1
              /\ cfg.raxConfig.onRetryAttempt
              /\ timer.state = "fired"
              /\ timer.left = 0
              /\ requests' = requests
              /\ onRetryAttemptCalls' = retries + 1
              /\ raxConfig' = raxConfig
              /\ currentRetryAttempt = onRetryAttemptCalls'
        /\ (requests' # requests /\ cfg.raxConfig.onRetryAttempt) =>
              /\ requests' = requests + 1
              /\ onRetryAttemptCalls = retries + 1
              /\ settled' = [callback |-> "onRetryAttempt", result |-> "resolved"]
       ]_vars

C9_Witness ==
    /\ pc = "inflight"
    /\ cfg.raxConfig.onRetryAttempt
    /\ onRetryAttemptCalls = 2
    /\ retries = 2
    /\ currentRetryAttempt = 2

\* C10: when onError or onRetryAttempt rejects, the chain ends there with
\* that rejection as the caller's error: the request is not resubmitted and no
\* callback of the chain runs afterwards.
callbackRejects == settled'.result = "rejected" /\ settled.result # "rejected"

C10_CallbackRejectionAborts ==
    [][ /\ callbackRejects =>
              /\ pc' = "done"
              /\ outcome' = [kind |-> "rejection", id |-> 0, by |-> settled'.callback]
              /\ requests' = requests
        /\ settled.result = "rejected" =>
              /\ outcome' = outcome
              /\ pc' = "done"
              /\ requests' = requests
              /\ onErrorCalls' = onErrorCalls
              /\ onRetryAttemptCalls' = onRetryAttemptCalls
              /\ shouldRetryCalls' = shouldRetryCalls ]_vars

C10_Witness ==
    /\ done
    /\ outcome = [kind |-> "rejection", id |-> 0, by |-> "onError"]
    /\ settled = [callback |-> "onError", result |-> "rejected"]
    /\ timer.state = "fired"
    /\ timer.delay > 0

\* getConfig(err): the policy attached to the failed request's config.
getConfig == raxConfig

\* The field retriesRemaining of that policy; no assignment in the engine
\* creates it.
retriesRemaining ==
    IF "retriesRemaining" \in DOMAIN getConfig
    THEN Some(getConfig.retriesRemaining)
    ELSE Undefined

\* C11: read through getConfig inside onRetryAttempt or after the final
\* rejection, retriesRemaining is defined and equals maxRetries minus
\* currentAttempt.
C11_RetriesRemaining ==
    (pc = "onRetryAttempt" \/ (done /\ outcome.kind = "failure")) =>
        /\ retriesRemaining # Undefined
        /\ Val(retriesRemaining) = maxRetries - currentRetryAttempt

\* The policy as the claims name it, read off the caller's configuration.
retryableMethods ==
    IF cfg.raxConfig.httpMethodsToRetry = Undefined
    THEN {"GET", "HEAD", "PUT", "OPTIONS", "DELETE"}
    ELSE {Val(cfg.raxConfig.httpMethodsToRetry).items[i] :
              i \in DOMAIN Val(cfg.raxConfig.httpMethodsToRetry).items}

retryableStatusRanges ==
    IF cfg.raxConfig.statusCodesToRetry = Undefined
    THEN {<<100, 199>>, <<429, 429>>, <<500, 599>>}
    ELSE {Val(cfg.raxConfig.statusCodesToRetry).items[i] :
              i \in DOMAIN Val(cfg.raxConfig.statusCodesToRetry).items}

currentAttemptBefore == IF resolved THEN currentRetryAttempt ELSE 0

\* C12: the default eligibility passes a failure exactly when maxRetries is
\* not 0, currentAttempt < maxRetries, the upper-cased method is one of
\* retryableMethods, and the failure has no response or its status lies in
\* some range of retryableStatusRanges, bounds included.
C12_DefaultEligibility ==
    [][ (failureArrives /\ cfg.raxConfig.shouldRetry = "undefined") =>
          ((pc' # "done") <=>
             /\ maxRetries # 0
             /\ currentAttemptBefore < maxRetries
             /\ toUpperCase(cfg.method) \in retryableMethods
             /\ \/ error'.status = 0
                \/ \E range \in retryableStatusRanges :
                      range[1] <= error'.status /\ error'.status <= range[2]) ]_vars

C12_Witness ==
    /\ pc = "backoff"
    /\ cfg.method = "post"
    /\ cfg.raxConfig.httpMethodsToRetry = Some(JSArray(<<"POST">>))
    /\ cfg.raxConfig.statusCodesToRetry = Some(JSArray(<<<<404, 429>>>>))
    /\ error.status = 404
    /\ currentRetryAttempt = 2
    /\ maxRetries = DefaultRetry

\* A POST under the default retryableMethods, and a POST under the default
\* list with POST added.
postByDefault ==
    /\ cfg.method = "post"
    /\ cfg.raxConfig.httpMethodsToRetry = Undefined
    /\ cfg.raxConfig.shouldRetry = "undefined"

postAdded ==
    /\ cfg.method = "post"
    /\ cfg.raxConfig.httpMethodsToRetry =
           Some(JSArray(<<"GET", "HEAD", "PUT", "OPTIONS", "DELETE", "POST">>))
    /\ cfg.raxConfig.shouldRetry = "undefined"

getByDefault ==
    /\ cfg.method = "get"
    /\ cfg.raxConfig.httpMethodsToRetry = Undefined
    /\ cfg.raxConfig.shouldRetry = "undefined"

\* The policy of the same chain issued as GET under the default methods.
asGetByDefault(policy) ==
    [resolveConfig(policy) EXCEPT !.httpMethodsToRetry = Some(defaultMethods)]

\* C13: under the default retryableMethods a failing POST ends the chain at
\* its first failure (one request, currentAttempt 0); with POST added, every
\* failure of a POST chain is answered as the same chain issued as GET under
\* the default policy answers it, and a GET chain under the default policy
\* answers it no other way: the same decision, the same delay, the same
\* currentAttempt, the same length of errors and the same requests.
C13_PostLikeGet ==
    [][ /\ (failureArrives /\ postByDefault) =>
              /\ pc' = "done"
              /\ outcome' = [kind |-> "failure", id |-> error'.id, by |-> "none"]
              /\ requests' = 1
              /\ currentRetryAttempt' = 0
        /\ (failureArrives /\ (postAdded \/ getByDefault)) =>
              LET twin == asGetByDefault(raxConfig)
                  retried == shouldRetryRequest(twin, "get", error')
                  committed == retried /\ ~(usesRetryAfter(twin, error')
                                             /\ ~retryAfterAccepted(twin, error'))
                  n == currentAttemptBefore + 1
              IN  /\ (pc' # "done") <=> retried
                  /\ (timer'.state = "pending") <=> committed
                  /\ committed => timer'.delay = retryDelayOf(twin, error', n, 0)
                  /\ currentRetryAttempt' =
                         IF committed THEN n ELSE currentAttemptBefore
                  /\ errorsLength' = errorsLength + 1
                  /\ requests' = requests
        /\ (requests' # requests /\ (postAdded \/ getByDefault)) =>
              /\ requests' = requests + 1
              /\ requests' = currentRetryAttempt + 1 ]_vars

C13_Witness ==
    /\ postAdded
    /\ done
    /\ outcome.kind = "failure"
    /\ cfg.raxConfig.retry = Some(MaxRetry)
    /\ requests = MaxRetry + 1
    /\ currentRetryAttempt = MaxRetry
    /\ errorsLength = MaxRetry + 1

\* The policy's Retry-After settings as the claims name them, and the value
\* in ms a header stands for: integer seconds times 1000, or a date minus now.
checkRetryAfterHeader ==
    cfg.raxConfig.checkRetryAfter = Undefined \/ Val(cfg.raxConfig.checkRetryAfter)

maxRetryAfter ==
    IF cfg.raxConfig.maxRetryAfter = Undefined THEN 300000
    ELSE Val(cfg.raxConfig.maxRetryAfter)

parses(header) == header.kind \in {"seconds", "date"}

headerMs(header) == IF header.kind = "seconds" THEN header.n * 1000 ELSE header.n

\* C14: when checkRetryAfterHeader is true and the eligible failure carries a
\* Retry-After value that parses to v ms with 0 < v <= maxRetryAfter, the
\* retry is committed with a delay of exactly v, whatever backoffStrategy,
\* baseDelay, jitter and maxDelay are.
C14_RetryAfterIsTheDelay ==
    [][ ( /\ passesEligibility
          /\ checkRetryAfterHeader
          /\ parses(error'.retryAfter)
          /\ 0 < headerMs(error'.retryAfter)
          /\ headerMs(error'.retryAfter) <= maxRetryAfter ) =>
            /\ timer'.state = "pending"
            /\ timer'.delay = headerMs(error'.retryAfter) * TicksPerMs
            /\ timer'.left = timer'.delay
            /\ currentRetryAttempt' = currentAttemptBefore + 1 ]_vars

C14_Witness ==
    /\ pc = "backoff"
    /\ timer.state = "pending"
    /\ error.retryAfter = HttpDate(6)
    /\ timer.delay = 6 * TicksPerMs
    /\ cfg.raxConfig.backoffType = "linear"
    /\ cfg.raxConfig.jitter = "full"
    /\ cfg.raxConfig.retryDelay = Some(3)
    /\ currentRetryAttempt = 2

\* A Retry-After header the policy does not accept.
retryAfterViolation(header) ==
    /\ header # NoHeader
    /\ \/ ~parses(header)
       \/ headerMs(header) <= 0
       \/ headerMs(header) > maxRetryAfter

backoffStrategy ==
    IF cfg.raxConfig.backoffType = "undefined" THEN "exponential"
    ELSE cfg.raxConfig.backoffType

baseDelay ==
    IF cfg.raxConfig.retryDelay = Undefined THEN 100 * TicksPerMs
    ELSE Val(cfg.raxConfig.retryDelay) * TicksPerMs

maxDelaySet == cfg.raxConfig.maxRetryDelay # Undefined

maxDelay == Val(cfg.raxConfig.maxRetryDelay) * TicksPerMs

clamped(delay) == IF maxDelaySet /\ maxDelay < delay THEN maxDelay ELSE delay

commitsRetry == passesEligibility /\ timer'.state = "pending"

fromRetryAfter == checkRetryAfterHeader /\ error'.retryAfter # NoHeader

\* C16 (as stated): when maxDelay is set, the delay waited before a retry
\* never exceeds it, whatever the headers of the failed response.
C16_Original ==
    (maxDelaySet /\ timer.state \in {"pending", "fired"}) => timer.delay <= maxDelay

\* C16 (amended): when maxDelay is set, a delay computed by the backoff
\* strategy never exceeds it, whatever the strategy and the jitter; a delay
\* taken from an accepted Retry-After header is not clamped by maxDelay and
\* is bounded by maxRetryAfter only.
C16_ComputedDelayCapped ==
    [][ (commitsRetry /\ maxDelaySet) =>
           IF fromRetryAfter
           THEN /\ timer'.delay = headerMs(error'.retryAfter) * TicksPerMs
                /\ timer'.delay <= maxRetryAfter * TicksPerMs
           ELSE timer'.delay <= maxDelay ]_vars

C16_Witness ==
    /\ pc = "backoff"
    /\ timer.state = "pending"
    /\ maxDelaySet
    /\ backoffStrategy = "linear"
    /\ error.retryAfter = NoHeader
    /\ timer.delay = maxDelay
    /\ currentRetryAttempt = 1

\* C17: exponential strategy, jitter none or unset, no Retry-After header, no
\* maxDelay: the delay before the n-th retry is ((2^n - 1) / 2) * baseDelay,
\* the first retry having n = 1; 50, 150, 350 ms for baseDelay = 100.
C17_ExponentialDelay ==
    [][ ( /\ commitsRetry
          /\ backoffStrategy = "exponential"
          /\ cfg.raxConfig.jitter \in {"undefined", "none"}
          /\ error'.retryAfter = NoHeader
          /\ ~maxDelaySet ) =>
            LET n == currentRetryAttempt'
            IN  /\ n = currentAttemptBefore + 1
                /\ n >= 1
                /\ 2 * timer'.delay = (2 ^ n - 1) * baseDelay
                /\ cfg.raxConfig.retryDelay \in {Undefined, Some(100)} =>
                       \/ n = 1 /\ timer'.delay = 50 * TicksPerMs
                       \/ n = 2 /\ timer'.delay = 150 * TicksPerMs
                       \/ n = 3 /\ timer'.delay = 350 * TicksPerMs
                       \/ n > 3 ]_vars

C17_Witness ==
    /\ pc = "backoff"
    /\ timer.state = "pending"
    /\ backoffStrategy = "exponential"
    /\ cfg.raxConfig.jitter = "none"
    /\ cfg.raxConfig.retryDelay = Undefined
    /\ ~maxDelaySet
    /\ error.retryAfter = NoHeader
    /\ currentRetryAttempt = 2
    /\ timer.delay = 150 * TicksPerMs

\* C18: static strategy, no Retry-After header: the delay before every retry
\* is baseDelay, clamped by maxDelay when set, whatever the attempt number
\* and the jitter setting.
C18_StaticDelay ==
    [][ ( /\ commitsRetry
          /\ backoffStrategy = "static"
          /\ error'.retryAfter = NoHeader ) =>
            timer'.delay = clamped(baseDelay) ]_vars

C18_Witness ==
    /\ pc = "backoff"
    /\ timer.state = "pending"
    /\ backoffStrategy = "static"
    /\ cfg.raxConfig.jitter = "full"
    /\ cfg.raxConfig.retryDelay = Some(3)
    /\ ~maxDelaySet
    /\ error.retryAfter = NoHeader
    /\ currentRetryAttempt = 2
    /\ timer.delay = 3 * TicksPerMs

\* C19: linear strategy, no Retry-After header: the delay before the n-th
\* retry is n * 1000 ms, clamped by maxDelay when set, whatever baseDelay and
\* the jitter setting; before the first retry it is 1000 ms, never 0.
C19_LinearDelay ==
    [][ ( /\ commitsRetry
          /\ backoffStrategy = "linear"
          /\ error'.retryAfter = NoHeader ) =>
            LET n == currentRetryAttempt'
            IN  /\ n = currentAttemptBefore + 1
                /\ timer'.delay = clamped(n * 1000 * TicksPerMs)
                /\ (n = 1 /\ ~maxDelaySet) => timer'.delay = 1000 * TicksPerMs
                /\ (maxDelaySet /\ maxDelay = 0) \/ timer'.delay > 0 ]_vars

C19_Witness ==
    /\ pc = "backoff"
    /\ timer.state = "pending"
    /\ backoffStrategy = "linear"
    /\ cfg.raxConfig.jitter = "equal"
    /\ cfg.raxConfig.retryDelay = Some(0)
    /\ ~maxDelaySet
    /\ error.retryAfter = NoHeader
    /\ currentRetryAttempt = 2
    /\ timer.delay = 2000 * TicksPerMs

\* The exponential delay before the n-th retry, before jitter and clamp.
exponentialDelay(n) == ((2 ^ n - 1) * baseDelay) \div 2

\* C20: exponential strategy with a computed delay d > 0, no Retry-After
\* header: full jitter yields a delay in [0, d), equal jitter a delay in
\* [d/2, d), and jitter none or unset exactly d; the maxDelay clamp, when
\* set, applies to what the jitter yields.
C20_JitterRanges ==
    [][ ( /\ commitsRetry
          /\ backoffStrategy = "exponential"
          /\ error'.retryAfter = NoHeader
          /\ exponentialDelay(currentRetryAttempt') > 0 ) =>
            LET d == exponentialDelay(currentRetryAttempt')
                yields ==
                    IF cfg.raxConfig.jitter = "full" THEN 0..(d - 1)
                    ELSE IF cfg.raxConfig.jitter = "equal"
                         THEN {x \in 0..(d - 1) : 2 * x >= d}
                    ELSE {d}
            IN  \E x \in yields : timer'.delay = clamped(x) ]_vars

C20_Witness ==
    /\ pc = "backoff"
    /\ timer.state = "pending"
    /\ backoffStrategy = "exponential"
    /\ cfg.raxConfig.jitter = "equal"
    /\ cfg.raxConfig.retryDelay = Undefined
    /\ ~maxDelaySet
    /\ error.retryAfter = NoHeader
    /\ currentRetryAttempt = 2
    /\ 2 * timer.delay > exponentialDelay(2)
    /\ timer.delay < exponentialDelay(2)

\* What a field of the policy holds once resolved: the caller's value when
\* the caller set it, the default otherwise.
keptOr(set, default) == IF set = Undefined THEN default ELSE Val(set)

\* C21: once the engine has resolved the policy on a failure, maxRetries,
\* baseDelay, backoffStrategy, retryableMethods, retryableStatusRanges,
\* checkRetryAfterHeader and maxRetryAfter hold the caller's value when the
\* caller set one (0 included) and otherwise 3, 100, exponential, {GET, HEAD,
\* PUT, OPTIONS, DELETE}, [[100,199],[429,429],[500,599]], true and 300000;
\* getConfig on the failure returns these values.
C21_DefaultsResolved ==
    resolved =>
        /\ getConfig.retry = Some(keptOr(cfg.raxConfig.retry, 3))
        /\ getConfig.retryDelay = Some(keptOr(cfg.raxConfig.retryDelay, 100))
        /\ getConfig.backoffType =
               (IF cfg.raxConfig.backoffType = "undefined" THEN "exponential"
                ELSE cfg.raxConfig.backoffType)
        /\ getConfig.httpMethodsToRetry =
               Some(keptOr(cfg.raxConfig.httpMethodsToRetry,
                           JSArray(<<"GET", "HEAD", "PUT", "OPTIONS", "DELETE">>)))
        /\ getConfig.statusCodesToRetry =
               Some(keptOr(cfg.raxConfig.statusCodesToRetry,
                           JSArray(<<<<100, 199>>, <<429, 429>>, <<500, 599>>>>)))
        /\ getConfig.checkRetryAfter = Some(keptOr(cfg.raxConfig.checkRetryAfter, TRUE))
        /\ getConfig.maxRetryAfter = Some(keptOr(cfg.raxConfig.maxRetryAfter, 300000))

C21_Witness ==
    /\ done
    /\ outcome.kind = "failure"
    /\ cfg.raxConfig.retry = Some(0)
    /\ cfg.raxConfig.retryDelay = Some(0)
    /\ cfg.raxConfig.httpMethodsToRetry = Undefined
    /\ cfg.raxConfig.maxRetryAfter = Undefined
    /\ getConfig.retry = Some(0)
    /\ getConfig.retryDelay = Some(0)
    /\ getConfig.maxRetryAfter = Some(300000)

\* A new logical request issued with the configuration object of a finished
\* one, and the first failure of a chain.
reusesConfig == pc = "done" /\ pc' = "inflight"

firstFailure == failureArrives /\ error'.id = 1

\* C22: a request that reuses the configuration object of a finished request
\* starts with the caller's policy as the caller wrote it: at its first
\* failure currentAttempt is 0 before the decision and errors holds that
\* failure alone; nothing of the earlier chain's counter or history is found.
C22_ReuseStartsAfresh ==
    [][ /\ reusesConfig =>
              /\ raxConfig' = cfg.raxConfig
              /\ raxConfig'.currentRetryAttempt = Undefined
              /\ raxConfig'.errors = Undefined
              /\ requests' = 1
        /\ firstFailure =>
              /\ currentAttemptBefore = 0
              /\ raxConfig'.errors = Some(<<error'.id>>)
              /\ currentRetryAttempt' = IF commitsRetry THEN 1 ELSE 0 ]_vars

C22_Witness ==
    /\ pc = "backoff"
    /\ outcome = [kind |-> "failure", id |-> MaxRetry + 1, by |-> "none"]
    /\ cfg.raxConfig.retry = Some(MaxRetry)
    /\ requests = 1
    /\ errorsLength = 1
    /\ currentRetryAttempt = 1

\* errors as a sequence, empty before the first failure.
errorHistory == IF raxConfig.errors = Undefined THEN <<>> ELSE Val(raxConfig.errors)

\* C23: errors lists the failures of the chain in the order they occurred
\* (the failure of the i-th request at place i, the original failure first),
\* each failure appends itself and nothing else changes the array, and at a
\* rejection with the failure itself the last element is the failure
\* delivered to the caller.
C23_HistoryAppendOnly ==
    [][ /\ failureArrives => errorHistory' = Append(errorHistory, error'.id)
        /\ ~failureArrives => errorHistory' = errorHistory
        /\ \A i \in 1..Len(errorHistory') : errorHistory'[i] = i
        /\ (pc' = "done" /\ outcome'.kind = "failure") =>
              /\ errorHistory' # <<>>
              /\ errorHistory'[Len(errorHistory')] = outcome'.id ]_vars

C23_Witness ==
    /\ done
    /\ outcome = [kind |-> "failure", id |-> MaxRetry + 1, by |-> "none"]
    /\ errorHistory = [i \in 1..(MaxRetry + 1) |-> i]
    /\ currentRetryAttempt = MaxRetry

\* The response of a request arrives as a success.
succeeds == outcome'.kind = "success" /\ outcome.kind # "success"

\* C24: when a resubmitted request succeeds the chain ends there: the success
\* goes to the caller, the policy and the counters are left as they were, and
\* afterwards no onError, onRetryAttempt, timer or request occurs.
C24_SuccessEndsChain ==
    [][ /\ (succeeds /\ requests > 1) =>
              /\ pc = "inflight"
              /\ pc' = "done"
              /\ outcome' = [kind |-> "success", id |-> 0, by |-> "none"]
              /\ UNCHANGED <<raxConfig, timer, requests, onErrorCalls,
                             onRetryAttemptCalls, shouldRetryCalls, settled>>
        /\ (outcome.kind = "success" /\ requests > 1) =>
              /\ pc = "done"
              /\ UNCHANGED <<pc, outcome, raxConfig, timer, requests, onErrorCalls,
                             onRetryAttemptCalls, shouldRetryCalls, settled>> ]_vars

C24_Witness ==
    /\ done
    /\ outcome.kind = "success"
    /\ requests = MaxRetry + 1
    /\ currentRetryAttempt = MaxRetry
    /\ errorsLength = MaxRetry
    /\ timer.state = "fired"

\* The chain ended because the ceiling was reached.
retriesExhausted ==
    /\ done
    /\ outcome.kind = "failure"
    /\ timer.state # "rejected"
    /\ currentRetryAttempt = maxRetries

\* C25: with a shouldRetry that always returns true, shouldRetry is invoked
\* once for each failure that is followed by a retry and for no other: not
\* for the exhausting failure, so exactly maxRetries times on a chain that
\* fails until exhaustion, and never when maxRetries = 0.
C25_ShouldRetryInvocations ==
    [][ cfg.raxConfig.shouldRetry = "true" =>
          /\ failureArrives =>
                shouldRetryCalls' =
                    IF pc' # "done" THEN shouldRetryCalls + 1 ELSE shouldRetryCalls
          /\ ~failureArrives => shouldRetryCalls' = shouldRetryCalls
          /\ retriesExhausted' => shouldRetryCalls' = maxRetries
          /\ maxRetries = 0 => shouldRetryCalls' = 0 ]_vars

C25_Witness ==
    /\ cfg.raxConfig.shouldRetry = "true"
    /\ cfg.method = "post"
    /\ cfg.raxConfig.retry = Some(MaxRetry)
    /\ retriesExhausted
    /\ error.status = 404
    /\ requests = MaxRetry + 1
    /\ shouldRetryCalls = MaxRetry

\* The engine decides not to retry the failure that arrives.
declinesRetry == failureArrives /\ pc' = "done"

\* C26: whenever the engine decides not to retry a failure that is not a
\* cancellation, it rejects with that failure, the resolved policy is on the
\* failure (defaults filled in, the failure last in errors), currentAttempt
\* has the value it had when the failure arrived, and nothing else happens:
\* no callback, no timer, no request.
C26_DeclinedFailureRethrown ==
    [][ declinesRetry =>
          /\ outcome' = [kind |-> "failure", id |-> error'.id, by |-> "none"]
          /\ resolved'
          /\ currentRetryAttempt' = currentAttemptBefore
          /\ getConfig' = [resolveConfig(raxConfig) EXCEPT
                              !.errors = Some(Append(errorHistory, error'.id))]
          /\ getConfig'.retry = Some(maxRetries)
          /\ UNCHANGED <<timer, requests, onErrorCalls, onRetryAttemptCalls,
                         settled>> ]_vars

C26_Witness ==
    /\ done
    /\ outcome.kind = "failure"
    /\ cfg.raxConfig.shouldRetry = "false"
    /\ cfg.raxConfig.retry = Some(MaxRetry)
    /\ shouldRetryCalls = 1
    /\ requests = 1
    /\ resolved
    /\ currentRetryAttempt = 0
    /\ errorHistory = <<1>>

\* C27: with a custom shouldRetry and currentAttempt < maxRetries, the
\* failure is retried exactly when shouldRetry returns true, whatever the
\* method and the status: shouldRetry is asked once and the default policy's
\* method and status checks are not applied.
C27_ShouldRetryAuthoritative ==
    [][ ( /\ failureArrives
          /\ cfg.raxConfig.shouldRetry # "undefined"
          /\ currentAttemptBefore < maxRetries ) =>
            /\ (pc' # "done") <=> (cfg.raxConfig.shouldRetry = "true")
            /\ shouldRetryCalls' = shouldRetryCalls + 1 ]_vars

C27_Witness ==
    /\ pc = "backoff"
    /\ timer.state = "pending"
    /\ cfg.raxConfig.shouldRetry = "true"
    /\ cfg.method = "post"
    /\ error.status = 404
    /\ currentRetryAttempt = 1
    /\ shouldRetryCalls = 1

\* currentAttempt as a caller reads it: 0 until the policy is resolved.
currentAttempt == IF resolved THEN currentRetryAttempt ELSE 0

\* C29 (as stated): at every terminal state of a chain currentAttempt equals
\* the number of requests the engine resubmitted.
C29_Original == done => currentAttempt = retries

\* C29 (amended): currentAttempt starts at 0 and is incremented by exactly 1
\* when a retry is committed, before onError and onRetryAttempt are called,
\* and never otherwise.  At a terminal state it equals the number of
\* resubmitted requests, except when onError or onRetryAttempt rejected after
\* the retry was committed: the retry counted was not performed, and
\* currentAttempt is one more than the requests resubmitted.
C29_CountsCommittedRetries ==
    [][ /\ currentAttempt' =
              IF commitsRetry THEN currentAttempt + 1 ELSE currentAttempt
        /\ pc' = "done" =>
              currentAttempt' =
                  IF outcome'.kind = "rejection" /\ timer'.state # "rejected"
                  THEN retries' + 1
                  ELSE retries' ]_vars

C29_Witness ==
    /\ done
    /\ outcome = [kind |-> "rejection", id |-> 0, by |-> "onError"]
    /\ timer.state = "pending"
    /\ retries = 1
    /\ currentAttempt = 2

\* C30: when onError is invoked for a failure that is going to be retried,
\* the policy it reads still shows the number of retries already performed
\* (0 at the first failure); the incremented value is first visible in
\* onRetryAttempt.
C30_OnErrorSeesRetriesPerformed ==
    [][ (onErrorCalls' # onErrorCalls /\ commitsRetry) =>
            /\ currentAttempt' = retries
            /\ firstFailure => currentAttempt' = 0 ]_vars

\* The client holds the engine's handler; a failure arrives on a client that
\* does not.
holdsHandler(client) == TRUE \in {handlers[client][i] : i \in DOMAIN handlers[client]}

failsUnhandled == failureArrives /\ error'.id # 0 /\ ~holdsHandler(instance)

endedOnViolation == done /\ timer.state = "rejected"

\* C31 (as stated): on a Retry-After violation the error delivered to the
\* caller is the current failure itself.
C31_Original ==
    endedOnViolation => outcome = [kind |-> "failure", id |-> error.id, by |-> "none"]

\* C31 (amended): on a Retry-After violation the error delivered to the
\* caller is the current failure itself, with the policy attached and that
\* failure last in errors, unless onError is configured and rejects: onError
\* is still called for that failure, and its rejection is what the caller
\* receives.
C31_ViolationDeliversFailure ==
    endedOnViolation =>
        /\ resolved
        /\ errorHistory[Len(errorHistory)] = error.id
        /\ outcome =
              IF settled = [callback |-> "onError", result |-> "rejected"]
              THEN [kind |-> "rejection", id |-> 0, by |-> "onError"]
              ELSE [kind |-> "failure", id |-> error.id, by |-> "none"]
        /\ outcome.kind = "rejection" => cfg.raxConfig.onError

C31_Witness ==
    /\ endedOnViolation
    /\ cfg.raxConfig.onError
    /\ settled = [callback |-> "onError", result |-> "resolved"]
    /\ error.retryAfter = Garbage
    /\ error.id = 2
    /\ outcome = [kind |-> "failure", id |-> 2, by |-> "none"]
    /\ errorHistory = <<1, 2>>

\* A transport request is handed to the instance.
issuesRequest == requests' # requests

\* The transport request issued last has not settled yet.
inFlight == pc = "inflight"

\* C32: within one chain the attempts are strictly sequential: request k+1
\* is issued only when no request is in flight, request k has failed, that
\* failure has been evaluated (recorded, found eligible, the retry
\* committed), the callbacks have settled and the wait has elapsed; while a
\* request is in flight every earlier one has settled.
C32_AttemptsSequential ==
    [][/\ issuesRequest =>
            /\ requests' = requests + 1
            /\ ~inFlight /\ inFlight'
            /\ error.id = requests /\ ~error.cancel
            /\ errorHistory[Len(errorHistory)] = requests
            /\ currentAttempt = requests
            /\ pc \in {"backoff", "onRetryAttempt"}
            /\ timer.state = "fired"
       /\ inFlight => error.id = requests - 1 /\ errorsLength = requests - 1
      ]_vars

C32_Witness ==
    /\ inFlight
    /\ requests = 3
    /\ errorHistory = <<1, 2>>
    /\ cfg.raxConfig.onError /\ cfg.raxConfig.onRetryAttempt
    /\ onErrorCalls = 2 /\ onRetryAttemptCalls = 2

\* The delays the backoff strategy can compute before the n-th retry, jitter
\* and the maxDelay clamp applied.
computedBackoff(n) ==
    IF backoffStrategy = "static" THEN {clamped(baseDelay)}
    ELSE IF backoffStrategy = "linear" THEN {clamped(n * 1000 * TicksPerMs)}
    ELSE LET d == exponentialDelay(n)
         IN  IF d = 0 \/ cfg.raxConfig.jitter \in {"undefined", "none"}
             THEN {clamped(d)}
             ELSE IF cfg.raxConfig.jitter = "full"
                  THEN {clamped(x) : x \in 0..(d - 1)}
                  ELSE {clamped(x) : x \in {y \in 0..(d - 1) : 2 * y >= d}}

\* C37: when checkRetryAfterHeader is false a Retry-After header on the
\* eligible failure is ignored: whether it is unparseable, non-positive, too
\* large or usable, the chain is not aborted, the retry is committed and the
\* delay is the computed backoff.
C37_HeaderIgnoredWhenOff ==
    [][ ( /\ passesEligibility
          /\ ~checkRetryAfterHeader
          /\ error'.retryAfter # NoHeader ) =>
            /\ timer'.state = "pending"
            /\ currentRetryAttempt' = currentAttemptBefore + 1
            /\ timer'.delay \in computedBackoff(currentRetryAttempt')
            /\ timer'.left = timer'.delay ]_vars

\* A retry committed on a header that would be a violation were it checked.
C37_Witness ==
    /\ pc = "backoff"
    /\ ~checkRetryAfterHeader
    /\ cfg.raxConfig.maxRetryAfter = Some(500)
    /\ error.retryAfter = Seconds(1)
    /\ timer.state = "pending"
    /\ timer.delay = 50 * TicksPerMs

\* The fields of a policy that the engine resolves and then only reads.
policyFields(config) ==
    [maxRetries |-> config.retry,
     baseDelay |-> config.retryDelay,
     backoffStrategy |-> config.backoffType,
     jitter |-> config.jitter,
     maxDelay |-> config.maxRetryDelay,
     retryableMethods |-> config.httpMethodsToRetry,
     retryableStatusRanges |-> config.statusCodesToRetry,
     checkRetryAfterHeader |-> config.checkRetryAfter,
     maxRetryAfter |-> config.maxRetryAfter]

\* C38: once resolved at the first failure, maxRetries, baseDelay,
\* backoffStrategy, jitter, maxDelay, retryableMethods,
\* retryableStatusRanges, checkRetryAfterHeader and maxRetryAfter keep their
\* values through every later step of the chain; evaluating a failure
\* changes nothing of the policy but currentAttempt and errorHistory; and
\* resolving the resolved policy again leaves every field as it was.
C38_PolicyFieldsKept ==
    [][ resolved =>
          /\ policyFields(getConfig') = policyFields(getConfig)
          /\ failureArrives =>
                getConfig' = [getConfig EXCEPT
                                 !.currentRetryAttempt = getConfig'.currentRetryAttempt,
                                 !.errors = getConfig'.errors]
          /\ ~failureArrives => getConfig' = getConfig
          /\ resolveConfig(getConfig) = getConfig
          /\ policyFields(resolveConfig(getConfig')) = policyFields(getConfig) ]_vars

C38_Witness ==
    /\ inFlight
    /\ requests = 3
    /\ errorsLength = 2
    /\ cfg.raxConfig.statusCodesToRetry # Undefined
    /\ ~Val(cfg.raxConfig.statusCodesToRetry).isArray
    /\ getConfig.statusCodesToRetry = Some(JSArray(<<<<500, 500>>>>))
    /\ cfg.raxConfig.httpMethodsToRetry = Undefined
    /\ getConfig.httpMethodsToRetry = Some(defaultMethods)
    /\ getConfig.retry = Some(2)

\* The caller has received the outcome of the chain.
delivered == done /\ outcome.kind # "pending"

\* C39: terminal outcomes are absorbing: once the outcome is delivered
\* (success, final rejection, or rejection by onError or onRetryAttempt) the
\* chain makes no further call of shouldRetry, onError, onRetryAttempt or the
\* transport and its outcome and policy stay as they are, even when a backoff
\* timer started before the rejection fires afterwards.
C39_TerminalAbsorbing ==
    [][ delivered =>
          /\ delivered'
          /\ outcome' = outcome
          /\ shouldRetryCalls' = shouldRetryCalls
          /\ onErrorCalls' = onErrorCalls
          /\ onRetryAttemptCalls' = onRetryAttemptCalls
          /\ requests' = requests
          /\ getConfig' = getConfig
          /\ error' = error ]_vars

\* The chain was rejected by onError while the timer of the committed retry
\* was still pending; the timer is about to fire.
C39_Witness ==
    /\ delivered
    /\ outcome = [kind |-> "rejection", id |-> 0, by |-> "onError"]
    /\ timer.state = "pending"
    /\ timer.left = 0
    /\ cfg.raxConfig.onRetryAttempt
    /\ requests = 2

\* The failures of the chain that passed the eligibility check so far: one
\* per retry committed, and the one that ended in a Retry-After violation.
passedEligibility ==
    currentAttempt + (IF timer.state = "rejected" THEN 1 ELSE 0)

\* C40: onError, when configured, has been invoked once for each failure
\* that passed eligibility and for no other: a cancellation and an
\* ineligible failure (the exhausting one included) leave the count as it
\* is, an eligible failure whose Retry-After header is a violation is
\* counted, and a chain that fails until maxRetries = N is exhausted ends
\* with N invocations.
C40_OnErrorForEligibleFailures ==
    [][ /\ onErrorCalls = (IF cfg.raxConfig.onError THEN passedEligibility ELSE 0)
        /\ onErrorCalls' = (IF cfg.raxConfig.onError THEN passedEligibility' ELSE 0)
        /\ error'.cancel => onErrorCalls' = onErrorCalls
        /\ (failureArrives /\ ~passesEligibility) => onErrorCalls' = onErrorCalls
        /\ ( /\ passesEligibility
              /\ timer'.state = "rejected"
              /\ cfg.raxConfig.onError ) => onErrorCalls' = onErrorCalls + 1
        /\ ( /\ failureArrives
              /\ retriesExhausted'
              /\ error'.id = maxRetries + 1
              /\ cfg.raxConfig.onError ) => onErrorCalls' = maxRetries
      ]_vars

C40_Witness ==
    /\ done
    /\ cfg.raxConfig.onError
    /\ timer.state = "rejected"
    /\ outcome.kind = "failure"
    /\ errorsLength = 2
    /\ onErrorCalls = 2
    /\ currentAttempt = 1

\* A list given as a keyed object {0: a, 1: b, ...}, and the array [a, b, ...]
\* of its entries in the order of their keys.
keyedObject(list) ==
    /\ list # Undefined
    /\ ~Val(list).isArray
    /\ DOMAIN Val(list).items = 0..(Cardinality(DOMAIN Val(list).items) - 1)

asArray(list) ==
    Some(JSArray([i \in 1..Cardinality(DOMAIN Val(list).items) |->
                     Val(list).items[i - 1]]))

\* The caller's policy with each keyed object replaced by that array.
withArrays(policy) ==
    [policy EXCEPT
        !.httpMethodsToRetry = IF keyedObject(@) THEN asArray(@) ELSE @,
        !.statusCodesToRetry = IF keyedObject(@) THEN asArray(@) ELSE @]

\* C35: a retryableMethods or retryableStatusRanges given as a keyed object
\* {0: a, 1: b, ...} is held by the resolved policy as the array [a, b, ...]
\* in the order of the keys, and every failure is answered as under the
\* policy given with that array (the same decision, the same policy
\* attached); a list given as an array is kept as it is, and normalizing a
\* normalized list changes nothing.
C35_KeyedObjectAsArray ==
    [][ failureArrives =>
          LET given == cfg.raxConfig
              twin == [raxConfig EXCEPT
                          !.httpMethodsToRetry =
                              withArrays(given).httpMethodsToRetry,
                          !.statusCodesToRetry =
                              withArrays(given).statusCodesToRetry]
          IN  /\ given.httpMethodsToRetry # Undefined =>
                    getConfig'.httpMethodsToRetry = withArrays(given).httpMethodsToRetry
              /\ given.statusCodesToRetry # Undefined =>
                    getConfig'.statusCodesToRetry = withArrays(given).statusCodesToRetry
              /\ (pc' # "done") <=>
                    shouldRetryRequest(resolveConfig(twin), cfg.method, error')
              /\ policyFields(getConfig') = policyFields(resolveConfig(twin))
              /\ \A list \in {given.httpMethodsToRetry, getConfig'.httpMethodsToRetry} :
                    /\ normalizeArray(normalizeArray(list)) = normalizeArray(list)
                    /\ (list # Undefined /\ Val(list).isArray) =>
                          normalizeArray(list) = list
              /\ \A list \in {given.statusCodesToRetry, getConfig'.statusCodesToRetry} :
                    /\ normalizeArray(normalizeArray(list)) = normalizeArray(list)
                    /\ (list # Undefined /\ Val(list).isArray) =>
                          normalizeArray(list) = list ]_vars

\* A POST chain retried under methods given as {0: "POST", 1: "GET"} and
\* status ranges given as {0: [500, 500]}.
C35_Witness ==
    /\ inFlight
    /\ requests = 2
    /\ cfg.method = "post"
    /\ keyedObject(cfg.raxConfig.httpMethodsToRetry)
    /\ keyedObject(cfg.raxConfig.statusCodesToRetry)
    /\ getConfig.httpMethodsToRetry = Some(JSArray(<<"POST", "GET">>))
    /\ getConfig.statusCodesToRetry = Some(JSArray(<<<<500, 500>>>>))
    /\ error.status = 500

\* What a caller can receive from a chain: the response, a failure of the
\* transport (a cancellation included) or the rejection of a callback.
callerOutcomes == {"pending", "success", "failure", "cancel", "rejection"}

\* C36 (as stated): whatever the policy the caller supplied (lists given as
\* an empty or sparse keyed object, or with entries that are not [min, max]
\* pairs), resolving it and evaluating eligibility raises no error of the
\* engine's own: the caller receives only transport failures and callback
\* rejections.
C36_NoEngineError == outcome.kind \in callerOutcomes

\* C34: when every transport call, callback and timer settles, every chain
\* terminates with an outcome delivered to the caller (the response or a
\* rejection), whatever the failures and whatever shouldRetry answers; the
\* chain does not end silently, and the outcome, once delivered, is the only
\* one.
C34_ChainTerminates ==
    /\ <>delivered
    /\ [](done => delivered)
    /\ [][outcome.kind # "pending" => outcome' = outcome]_vars

\* A chain that ended on its ceiling under a shouldRetry that always answers
\* true, never cancelled.
C34_Witness ==
    /\ delivered
    /\ ~cancelled
    /\ cfg.raxConfig.shouldRetry = "true"
    /\ cfg.raxConfig.retry = Some(MaxRetry)
    /\ requests = MaxRetry + 1
    /\ outcome.kind = "failure"
    /\ timer.state = "fired"

\* What holds of a chain c that runs alone: its policy is the one resolved
\* from its own request, its history lists its own failures in order,
\* onError was called for its own eligible failures, and what it delivers
\* is the failure of its own last request.
asAlone(c) ==
    LET isResolved == c.raxConfig.currentRetryAttempt # Undefined
        attempt == IF isResolved THEN Val(c.raxConfig.currentRetryAttempt) ELSE 0
        history == IF c.raxConfig.errors = Undefined THEN <<>>
                   ELSE Val(c.raxConfig.errors)
        failures == IF c.error.cancel THEN c.error.id - 1 ELSE c.error.id
    IN  /\ isResolved =>
              [c.raxConfig EXCEPT !.currentRetryAttempt = Undefined,
                                  !.errors = Undefined]
                = [resolveConfig(c.cfg.raxConfig) EXCEPT
                       !.currentRetryAttempt = Undefined, !.errors = Undefined]
        /\ ~isResolved => c.raxConfig = c.cfg.raxConfig
        /\ history = [i \in 1..failures |-> i]
        /\ c.requests \in {failures, failures + 1}
        /\ attempt \in {c.requests - 1, c.requests}
        /\ c.onErrorCalls =
              (IF c.cfg.raxConfig.onError
               THEN attempt + (IF c.timer.state = "rejected" THEN 1 ELSE 0)
               ELSE 0)
        /\ c.onRetryAttemptCalls \in {0, c.requests - 1, c.requests}
        /\ c.outcome.kind = "failure" =>
              c.outcome.id = c.requests /\ failures = c.requests
        /\ (c.pc = "done") = (c.outcome.kind # "pending")

\* C33: two chains in flight at once, their steps interleaved in any
\* order: a step of one leaves the other as it is (its currentAttempt, its
\* errorHistory, every field of its policy), taking turns exchanges the two
\* and changes neither, and each chain is at every moment, and so at its
\* end, what it is when it runs alone: the same policy, request count,
\* history and outcome.
C33_ChainsIndependent ==
    [][ /\ \/ other' = other
           \/ other' = chain /\ chain' = other
        /\ asAlone(chain) /\ asAlone(other)
        /\ asAlone(chain') /\ asAlone(other') ]_vars

\* Both chains have ended, each with its own outcome and history, the
\* second one after the first had failed once and before it failed again.
C33_Witness ==
    /\ done
    /\ outcome = [kind |-> "failure", id |-> 2, by |-> "none"]
    /\ errorHistory = <<1, 2>>
    /\ other.pc = "done"
    /\ other.outcome = [kind |-> "rejection", id |-> 0, by |-> "onRetryAttempt"]
    /\ other.raxConfig.errors = Some(<<1>>)
    /\ other.cfg # cfg

====
